---- MODULE Spec2Model ----
(***************************************************************************)
(* Attack-vector synthesis pipeline of the maritime-port IoT dashboard:     *)
(* the module-level generation configuration of utils/ai_utils.py, the      *)
(* three narrative generators, AttackVectorAnalyzer (set_devices, analyze)  *)
(* and the two copies of calculate_rag_status.                              *)
(*                                                                          *)
(* Conventions.                                                             *)
(*  - A vulnerability score is an integer number of tenths (90 is 9.0).     *)
(*    A device is a Python dict: a function whose DOMAIN holds the keys     *)
(*    that are present.  The value under "vuln_score" is tagged: Num(t) is  *)
(*    the number t/10, Str(s) a string (a JSON file can hold either).       *)
(*  - Arithmetic is exact rational arithmetic, and round(x, 1) is           *)
(*    round-half-to-even on the exact value, as the builtin is documented.  *)
(*  - A Python call either returns or raises: Ok(v) / Raise(msg).           *)
(*  - A narrative (a Python string built by concatenation) is the sequence  *)
(*    of its parts; + on strings is \o.                                     *)
(***************************************************************************)
EXTENDS Integers, Sequences, FiniteSets, TLC

VARIABLES
    OPENAI_AVAILABLE,   \* ai_utils: the openai package could be imported
    OPENAI_API_KEY,     \* ai_utils: the credential string, a sequence of characters
    client,             \* ai_utils: "OpenAI" when the client was built, "None" otherwise
    devices,            \* AttackVectorAnalyzer.devices (the list object the caller handed over)
    given,              \* the contents of that list when the caller handed it over
    pc,                 \* "idle", "awaiting" (analyze blocked in the remote request), "done"
    use_ai,             \* the argument of the analyze call in progress or last returned
    invoked,            \* the generators entered by that call, in order
    requests,           \* how often that call has called the remote model
    response,           \* what the remote request of that call produced
    result,             \* the value that call returned
    escaped,            \* the exception that left that call, "" when none did
    rag,                \* the last classification the dashboards computed
    narrative,          \* what the last direct call of a generator handed back
    fs,                 \* the files the Shodan conversion reads and writes
    io,                 \* the file operations of the last call, in order
    parsed_data,        \* the parsed document the caller of the Shodan parser holds
    shodan,             \* how the last call of parse_text_file or of main ended
    extracted,          \* what the last derived view of the document returned
    threads,            \* the analyze calls of two analyzers that run concurrently
    session,            \* st.session_state and what the last script run displayed
    calls               \* the analyze calls made since the device list was configured

\* the variables of the Shodan conversion
shodanVars == <<fs, io, parsed_data, shodan, extracted>>

vars == <<OPENAI_AVAILABLE, OPENAI_API_KEY, client, devices, given, pc, use_ai,
          invoked, requests, response, result, escaped, rag, narrative, shodanVars,
          threads, session, calls>>

-----------------------------------------------------------------------------
(* Bounds *)

MaxDevices == 3         \* longest device list of the analyzer life cycle
MaxPathDevices == 6     \* longest device list of the ranking / scoring runs
MaxRagScore == 110      \* largest score (tenths) handed to calculate_rag_status
MaxNegRagScore == 10    \* the smallest one is -MaxNegRagScore
MaxFieldDevices == 2    \* longest list of devices with optional fields
MaxText == 5            \* longest scan text over the small alphabet
MaxHosts == 2           \* most host blocks of a rendered scan text
MaxCalls == 2           \* most analyze calls on one configured device list
MaxRaisedDevices == 6   \* longest device list of which one score is raised
MaxThreadDevices == 2   \* longest device list of an analyzer that runs beside another

-----------------------------------------------------------------------------
(* Python values *)

Num(t) == [num |-> t]
Str(s) == [str |-> s]
IsNum(v) == "num" \in DOMAIN v

None == [none |-> TRUE]

Ok(v) == [raised |-> FALSE, value |-> v]
Raise(msg) == [raised |-> TRUE, error |-> msg]

\* dict.get(k, default)
Get(d, k, default) == IF k \in DOMAIN d THEN d[k] ELSE default

TypeErrorLt == "'<' not supported between instances of 'str' and 'int'"
TypeErrorGe == "'>=' not supported between instances of 'str' and 'int'"
TypeErrorAdd == "unsupported operand type(s) for +: 'int' and 'str'"

\* the characters of a string
sk_demo == <<"s", "k", "-", "d", "e", "m", "o">>

\* str.startswith
startswith(s, prefix) ==
    /\ Len(s) >= Len(prefix)
    /\ SubSeq(s, 1, Len(prefix)) = prefix

\* rationals n/d with d > 0
Rat(n, d) == [n |-> n, d |-> d]
RatAdd(a, b) == Rat(a.n * b.d + b.n * a.d, a.d * b.d)
RatMul(a, b) == Rat(a.n * b.n, a.d * b.d)
RatLe(a, b) == a.n * b.d <= b.n * a.d
RatMin(a, b) == IF RatLe(a, b) THEN a ELSE b

\* round(x, 1) for x >= 0: the result in tenths, ties to the even tenth
round1(x) ==
    LET num == 10 * x.n
        q == num \div x.d
        r == num % x.d
    IN  IF 2 * r < x.d THEN q
        ELSE IF 2 * r > x.d THEN q + 1
        ELSE IF q % 2 = 0 THEN q ELSE q + 1

-----------------------------------------------------------------------------
(* Devices *)

\* what the "vuln_score" key of a device may hold in the life-cycle runs;
\* Absent is a dict without the key
Absent == [absent |-> TRUE]
ScoreChoices == {Absent, Str("high"), Num(40), Num(90)}

\* what it may hold in the ranking / scoring runs
PathScoreChoices == {Absent, Num(20), Num(90), Num(100)}

\* the i-th device of a list; its name is its position in the caller's list
Device(i, c) ==
    IF c = Absent THEN [name |-> i] ELSE [name |-> i, vuln_score |-> c]

DeviceListsOf(choices, maxLen) ==
    UNION {{[i \in 1..n |-> Device(i, f[i])] : f \in [1..n -> choices]} : n \in 0..maxLen}

DeviceLists == DeviceListsOf(ScoreChoices, MaxDevices)
PathDeviceLists == DeviceListsOf(PathScoreChoices, MaxPathDevices)

\* a dict without keys
EmptyDict == [k \in {} |-> k]

\* the dict with key k when the option o (<<>> or <<value>>) holds a value
Optional(k, o) == IF o = <<>> THEN EmptyDict ELSE (k :> o[1])

\* devices of the data model with each field present or not
FieldDevices ==
    {Optional("name", n) @@ Optional("device_type", t)
         @@ Optional("vuln_score", v) @@ Optional("cves", c) :
        n \in {<<>>, <<"Gate Camera">>},
        t \in {<<>>, <<"ICS/SCADA">>},
        v \in {<<>>, <<Num(40)>>, <<Num(90)>>},
        c \in {<<>>, <<(<<"CVE-2021-0001">>)>>}}

FieldDeviceLists == UNION {[1..n -> FieldDevices] : n \in 0..MaxFieldDevices}

\* variant: x.get("vuln_score", 10)
vuln_score_default_high(d) == Get(d, "vuln_score", Num(100))

\* lambda x: x.get("vuln_score", 0)
vuln_score(d) == Get(d, "vuln_score", Num(0))

\* every score of the list is a number (or absent), as the data model has it
WellFormed(devs) == \A i \in 1..Len(devs) : IsNum(vuln_score(devs[i]))

-----------------------------------------------------------------------------
(* sorted(devices, key=lambda x: x.get("vuln_score", 0), reverse=True) *)

\* the keys of a list can be ordered when they are all numbers or all strings
Comparable(devs) ==
    \A i, j \in 1..Len(devs) : IsNum(vuln_score(devs[i])) = IsNum(vuln_score(devs[j]))

\* a >= b on two keys of the same type ("high" is the only string)
KeyGe(a, b) == IF IsNum(a) /\ IsNum(b) THEN a.num >= b.num ELSE TRUE

\* d goes behind every element whose key is not smaller: equal keys keep
\* their input order
RECURSIVE InsertRanked(_, _)
InsertRanked(s, d) ==
    IF s = <<>> THEN <<d>>
    ELSE IF KeyGe(vuln_score(Head(s)), vuln_score(d))
         THEN <<Head(s)>> \o InsertRanked(Tail(s), d)
         ELSE <<d>> \o s

RECURSIVE Ranked(_)
Ranked(devs) ==
    IF devs = <<>> THEN <<>>
    ELSE InsertRanked(Ranked(SubSeq(devs, 1, Len(devs) - 1)), devs[Len(devs)])

\* variant: equal keys end in reverse input order (an unstable ranking)
RECURSIVE InsertRankedFirst(_, _)
InsertRankedFirst(s, d) ==
    IF s = <<>> THEN <<d>>
    ELSE IF IsNum(vuln_score(d)) /\ vuln_score(Head(s)).num > vuln_score(d).num
         THEN <<Head(s)>> \o InsertRankedFirst(Tail(s), d)
         ELSE <<d>> \o s

RECURSIVE RankedUnstable(_)
RankedUnstable(devs) ==
    IF devs = <<>> THEN <<>>
    ELSE InsertRankedFirst(RankedUnstable(SubSeq(devs, 1, Len(devs) - 1)), devs[Len(devs)])

sorted_unstable(devs) ==
    IF Comparable(devs) THEN Ok(RankedUnstable(devs)) ELSE Raise(TypeErrorLt)

sorted(devs) ==
    IF Comparable(devs) THEN Ok(Ranked(devs)) ELSE Raise(TypeErrorLt)

\* variant: devices.sort(...) ranks the caller's list in place
sorted_argument_in_place(devs) ==
    IF Comparable(devs) THEN Ranked(devs) ELSE devs

\* the list object handed to sorted(), after the call: sorted() builds a new list
sorted_argument(devs) == devs

-----------------------------------------------------------------------------
(* The rule-based and the simulated generator *)

NoDevicesText == "No devices available for attack vector analysis."
Text(t) == [kind |-> "text", text |-> t]

\* s[lo:hi] for 0 <= lo <= hi
Slice(s, lo, hi) == SubSeq(s, lo + 1, IF Len(s) < hi THEN Len(s) ELSE hi)

RECURSIVE SelectScoreGe(_, _)
SelectScoreGe(s, threshold) ==
    IF s = <<>> THEN <<>>
    ELSE IF vuln_score(Head(s)).num >= threshold
         THEN <<Head(s)>> \o SelectScoreGe(Tail(s), threshold)
         ELSE SelectScoreGe(Tail(s), threshold)

\* [d for d in s if d.get('vuln_score', 0) >= threshold]: comparing a string
\* score with a number raises
FilterScoreGe(s, threshold) ==
    IF WellFormed(s) THEN Ok(SelectScoreGe(s, threshold)) ELSE Raise(TypeErrorGe)

\* variant: the window behind the entry point is sorted_devices[1:3]
rule_based_lateral_targets_short(sorted_devices) ==
    FilterScoreGe(Slice(sorted_devices, 1, 3), 40)

\* rule_based_attack_vector:
\* [d for d in sorted_devices[1:4] if d.get('vuln_score', 0) >= 4]
rule_based_lateral_targets(sorted_devices) ==
    FilterScoreGe(Slice(sorted_devices, 1, 4), 40)

\* variant: the simulated generator caps its targets at two
simulation_lateral_targets_cap2(sorted_devices) ==
    FilterScoreGe(Slice(sorted_devices, 1, 3), 40)

\* variant: the three devices behind the entry point, without the threshold
simulation_lateral_targets_unfiltered(sorted_devices) ==
    Ok(Slice(sorted_devices, 1, 4))

\* simulation_attack_vector:
\* [d for d in sorted_devices[1:4] if d.get('vuln_score', 0) >= 4]
simulation_lateral_targets(sorted_devices) ==
    FilterScoreGe(Slice(sorted_devices, 1, 4), 40)

\* the fields the rule-based narrative shows of its entry point
rule_based_entry_text(d) ==
    [name |-> Get(d, "name", "Unknown Device"),
     device_type |-> Get(d, "device_type", "Unknown"),
     vuln_score |-> Get(d, "vuln_score", Num(0)),
     cves |-> Get(d, "cves", <<"None">>),
     exploited |-> Get(d, "name", "the entry point")]

\* and of a lateral target
rule_based_target_text(d) ==
    [name |-> Get(d, "name", "Unknown"),
     vuln_score |-> Get(d, "vuln_score", Num(0))]

\* variant: entry_point['name'] and entry_point['cves'] instead of .get
simulation_entry_text_subscript(d) ==
    IF "name" \notin DOMAIN d THEN Raise("KeyError: 'name'")
    ELSE IF "cves" \notin DOMAIN d THEN Raise("KeyError: 'cves'")
    ELSE Ok([name |-> d["name"],
             device_type |-> Get(d, "device_type", "Unknown"),
             vuln_score |-> Get(d, "vuln_score", Num(0)),
             cves |-> d["cves"],
             targeted |-> Get(d, "device_type", "primary system")])

\* the fields the simulated narrative shows of its entry point
simulation_entry_text(d) ==
    Ok([name |-> Get(d, "name", "Primary Target"),
        device_type |-> Get(d, "device_type", "Unknown"),
        vuln_score |-> Get(d, "vuln_score", Num(0)),
        cves |-> Get(d, "cves", <<"CVE-2023-XXXX">>),
        targeted |-> Get(d, "device_type", "primary system")])

\* [...][i % 3] on the two three-element lists of the lateral movement section
Purpose(i) ==
    IF i % 3 = 0 THEN "Data exfiltration"
    ELSE IF i % 3 = 1 THEN "Command and control"
    ELSE "Secondary persistence"

AccessMethod(i) ==
    IF i % 3 = 0 THEN "Credential reuse"
    ELSE IF i % 3 = 1 THEN "Trust relationship exploitation"
    ELSE "Network protocol vulnerabilities"

\* and of its i-th lateral target (enumerate(lateral_targets, 1))
simulation_target_text(d, i) ==
    [name |-> Get(d, "name", "Secondary Target"),
     device_type |-> Get(d, "device_type", "Unknown"),
     vuln_score |-> Get(d, "vuln_score", Num(0)),
     purpose |-> Purpose(i),
     access_method |-> AccessMethod(i)]

\* what a generator hands back: how the call ended, the caller's list object
\* after the call, and the generators that were entered
Returned(outcome, devs, entered) ==
    [outcome |-> outcome, devices |-> devs, invoked |-> entered]

\* s + note, for a call s that may have raised
Plus(outcome, part) ==
    IF outcome.raised THEN outcome ELSE Ok(outcome.value \o <<part>>)

rule_based_attack_vector(devs) ==
    IF devs = <<>> THEN Returned(Ok(<<Text(NoDevicesText)>>), devs, <<"rule_based">>)
    ELSE LET sorted_devices == sorted(devs)
             after == sorted_argument(devs)
         IN  IF sorted_devices.raised
             THEN Returned(sorted_devices, after, <<"rule_based">>)
             ELSE LET entry_point == sorted_devices.value[1]
                      targets == rule_based_lateral_targets(sorted_devices.value)
                  IN  IF targets.raised
                      THEN Returned(targets, after, <<"rule_based">>)
                      ELSE Returned(Ok(<<[kind |-> "rule_based",
                                          entry_point |-> entry_point,
                                          lateral_targets |-> targets.value,
                                          entry_text |-> rule_based_entry_text(entry_point),
                                          target_texts |->
                                              [i \in 1..Len(targets.value) |->
                                                  rule_based_target_text(targets.value[i])]]>>),
                                    after, <<"rule_based">>)

simulation_attack_vector(devs) ==
    IF devs = <<>> THEN Returned(Ok(<<Text(NoDevicesText)>>), devs, <<"simulation">>)
    ELSE LET sorted_devices == sorted(devs)
             after == sorted_argument(devs)
         IN  IF sorted_devices.raised
             THEN Returned(sorted_devices, after, <<"simulation">>)
             ELSE LET entry_point == sorted_devices.value[1]
                      targets == simulation_lateral_targets(sorted_devices.value)
                      entry_text == simulation_entry_text(entry_point)
                  IN  IF targets.raised
                      THEN Returned(targets, after, <<"simulation">>)
                      ELSE IF entry_text.raised
                      THEN Returned(entry_text, after, <<"simulation">>)
                      ELSE Returned(Ok(<<[kind |-> "simulation",
                                          entry_point |-> entry_point,
                                          lateral_targets |-> targets.value,
                                          entry_text |-> entry_text.value,
                                          target_texts |->
                                              [i \in 1..Len(targets.value) |->
                                                  simulation_target_text(targets.value[i], i)]]>>),
                                    after, <<"simulation">>)

-----------------------------------------------------------------------------
(* Module-level configuration of ai_utils *)

sk_live == <<"s", "k", "-", "l", "i", "v", "e">>

\* the credentials the secret loading may end with: none (""), the
\* placeholder, a placeholder with a suffix, a cut-off placeholder, a real key
KeyChoices == {<<>>, sk_demo, sk_demo \o <<"-", "1">>, <<"s", "k", "-", "d">>, sk_live}

\* variant: only the exact placeholder counts (== instead of startswith)
SIMULATION_MODE_exact == OPENAI_API_KEY = sk_demo

\* bool(OPENAI_API_KEY and OPENAI_API_KEY.startswith("sk-demo"))
SIMULATION_MODE == OPENAI_API_KEY # <<>> /\ startswith(OPENAI_API_KEY, sk_demo)

\* the client after import: built only with the package and a key, and the
\* constructor may raise, which leaves None
ClientChoices(available, key) ==
    IF available /\ key # <<>> THEN {"OpenAI", "None"} ELSE {"None"}

-----------------------------------------------------------------------------
(* The remote generator *)

Note(t) == [kind |-> "note", text |-> t]
NotInstalledNote == Note("OpenAI package not installed. Using rule-based analysis.")
NoKeyNote ==
    Note("OpenAI API key not found in secrets.toml or environment. Using rule-based analysis.")
ErrorNote(e) ==
    [kind |-> "note", text |-> "AI-enhanced analysis using real API unavailable. Error: ",
     error |-> e]

\* str(e) of what client.chat.completions.create or the read of
\* response.choices[0].message.content may raise
RemoteErrors == {"Connection error.", "Incorrect API key provided",
                 "Rate limit exceeded", "list index out of range"}

NoResponse == [status |-> "none"]
Responses == {[status |-> "ok", content |-> "remote narrative"]}
                 \cup {[status |-> "error", error |-> e] : e \in RemoteErrors}

\* variant: without a credential the simulated generator is used
generate_without_api_key_simulated(devs) ==
    simulation_attack_vector(devs) @@ [state |-> "returned"]

\* if not OPENAI_API_KEY: the rule-based narrative and a note
generate_without_api_key(devs) ==
    LET r == rule_based_attack_vector(devs)
    IN  Returned(Plus(r.outcome, NoKeyNote), r.devices, r.invoked)
            @@ [state |-> "returned"]

\* generate_attack_vector_with_ai up to its return or to the remote request
generate_attack_vector_with_ai(devs) ==
    IF devs = <<>>
    THEN Returned(Ok(<<Text(NoDevicesText)>>), devs, <<>>) @@ [state |-> "returned"]
    ELSE IF ~OPENAI_AVAILABLE
    THEN LET r == rule_based_attack_vector(devs)
         IN  Returned(Plus(r.outcome, NotInstalledNote), r.devices, r.invoked)
                 @@ [state |-> "returned"]
    ELSE IF OPENAI_API_KEY = <<>>
    THEN generate_without_api_key(devs)
    ELSE IF SIMULATION_MODE
    THEN simulation_attack_vector(devs) @@ [state |-> "returned"]
    ELSE LET vulnerable_devices == sorted(devs)
             after == sorted_argument(devs)
         IN  IF vulnerable_devices.raised
             THEN Returned(vulnerable_devices, after, <<"remote">>) @@ [state |-> "returned"]
             ELSE IF client = "None"
             THEN LET r == simulation_attack_vector(after)
                  IN  Returned(r.outcome, r.devices, <<"remote">> \o r.invoked)
                          @@ [state |-> "returned"]
             ELSE Returned(Ok(<<>>), after, <<"remote">>) @@ [state |-> "request"]

\* variant: the request is not wrapped in try / except
generate_attack_vector_with_ai_response_unhandled(devs, resp) ==
    IF resp.status = "ok"
    THEN Returned(Ok(<<[kind |-> "remote", content |-> resp.content]>>), devs, <<>>)
             @@ [requests |-> 0]
    ELSE Returned(Raise(resp.error), devs, <<>>) @@ [requests |-> 0]

\* variant: the except clause calls the remote model once more before it
\* falls back
generate_attack_vector_with_ai_response_retry(devs, resp) ==
    IF resp.status = "ok"
    THEN Returned(Ok(<<[kind |-> "remote", content |-> resp.content]>>), devs, <<>>)
             @@ [requests |-> 0]
    ELSE LET r == simulation_attack_vector(devs)
         IN  Returned(Plus(r.outcome, ErrorNote(resp.error)), r.devices, r.invoked)
                 @@ [requests |-> 1]

\* generate_attack_vector_with_ai from the end of the remote request; requests
\* counts the calls of the remote model made from here on
generate_attack_vector_with_ai_response(devs, resp) ==
    IF resp.status = "ok"
    THEN Returned(Ok(<<[kind |-> "remote", content |-> resp.content]>>), devs, <<>>)
             @@ [requests |-> 0]
    ELSE LET r == simulation_attack_vector(devs)
         IN  Returned(Plus(r.outcome, ErrorNote(resp.error)), r.devices, r.invoked)
                 @@ [requests |-> 0]

-----------------------------------------------------------------------------
(* AttackVectorAnalyzer *)

NoResult == [none |-> TRUE]
NoDevicesError == "No devices available for analysis"

RECURSIVE SumScores(_)
\* sum(d.get("vuln_score", 0) for d in devices), in tenths, given numeric scores
SumScores(devs) ==
    IF devs = <<>> THEN 0 ELSE vuln_score(Head(devs)).num + SumScores(Tail(devs))

RECURSIVE CountHigh(_)
\* sum(1 for d in devices if d.get("vuln_score", 0) >= 7)
CountHigh(devs) ==
    IF devs = <<>> THEN 0
    ELSE (IF vuln_score(Head(devs)).num >= 70 THEN 1 ELSE 0) + CountHigh(Tail(devs))

\* sum(...) / len(self.devices), as the exact rational
avg_vuln_score(devs) == Rat(SumScores(devs), 10 * Len(devs))

\* variant: sum(1 for d in self.devices if d.get("vuln_score", 0) < 7)
high_vuln_count_below(devs) == Len(devs) - CountHigh(devs)

high_vuln_count(devs) == CountHigh(devs)

\* variant: the high-score term weighs 0.3
risk_score_single_weight(devs) ==
    RatMin(Rat(10, 1),
           RatAdd(RatMul(avg_vuln_score(devs), Rat(7, 10)),
                  RatMul(Rat(high_vuln_count(devs), 1), Rat(3, 10))))

\* variant: no cap at 10
risk_score_uncapped(devs) ==
    RatAdd(RatMul(avg_vuln_score(devs), Rat(7, 10)),
           RatMul(RatMul(Rat(high_vuln_count(devs), 1), Rat(3, 10)), Rat(2, 1)))

\* min(10, (avg_vuln_score * 0.7) + (high_vuln_count * 0.3 * 2))
risk_score(devs) ==
    RatMin(Rat(10, 1),
           RatAdd(RatMul(avg_vuln_score(devs), Rat(7, 10)),
                  RatMul(RatMul(Rat(high_vuln_count(devs), 1), Rat(3, 10)), Rat(2, 1))))

\* variant: a narrative that carries a note is scored 0
analyze_statistics_noted(attack_vector, devs) ==
    IF ~WellFormed(devs) THEN Raise(TypeErrorAdd)
    ELSE Ok([success |-> TRUE,
             attack_vector |-> attack_vector,
             risk_score |-> IF \E i \in 1..Len(attack_vector) :
                                  attack_vector[i].kind = "note"
                            THEN 0 ELSE round1(risk_score(devs)),
             high_vuln_count |-> high_vuln_count(devs),
             avg_vuln_score |-> round1(avg_vuln_score(devs))])

\* the statements of the try block behind the generator call: the statistics
\* and the result record, or the TypeError of adding a string score
analyze_statistics(attack_vector, devs) ==
    IF ~WellFormed(devs) THEN Raise(TypeErrorAdd)
    ELSE Ok([success |-> TRUE,
             attack_vector |-> attack_vector,
             risk_score |-> round1(risk_score(devs)),
             high_vuln_count |-> high_vuln_count(devs),
             avg_vuln_score |-> round1(avg_vuln_score(devs))])

\* variant: no early return, so that len(self.devices) = 0 divides the sum
analyze_no_devices_unguarded ==
    [success |-> FALSE,
     error |-> "division by zero",
     attack_vector |-> <<Text("Error generating attack vector: "), Text("division by zero")>>]

\* if not self.devices: the early return
analyze_no_devices ==
    [success |-> FALSE,
     error |-> NoDevicesError,
     attack_vector |-> <<Text(NoDevicesText)>>]

\* variant: no except clause, the exception leaves analyze
analyze_except_reraise(outcome) ==
    IF outcome.raised
    THEN [result |-> NoResult, escaped |-> outcome.error]
    ELSE [result |-> outcome.value, escaped |-> ""]

\* except Exception as e: what analyze returns and what leaves it
analyze_except(outcome) ==
    IF outcome.raised
    THEN [result |-> [success |-> FALSE,
                      error |-> outcome.error,
                      attack_vector |-> <<Text("Error generating attack vector: "),
                                          Text(outcome.error)>>],
          escaped |-> ""]
    ELSE [result |-> outcome.value, escaped |-> ""]

\* the rest of analyze once the generator g has come back
Complete(g) ==
    \E body \in {IF g.outcome.raised THEN g.outcome
                  ELSE analyze_statistics(g.outcome.value, g.devices)} :
        \E end \in {analyze_except(body)} :
            /\ result' = end.result
            /\ escaped' = end.escaped
            /\ devices' = g.devices
            /\ pc' = "done"

\* variant: self.devices = self.devices or devices, a list once configured
\* stays
set_devices_keeps_first(ds) ==
    /\ pc \notin {"awaiting", "blocked"}
    /\ devices' = IF devices # <<>> THEN devices ELSE ds
    /\ given' = ds
    /\ pc' = "idle"
    /\ invoked' = <<>>
    /\ requests' = 0
    /\ response' = NoResponse
    /\ result' = NoResult
    /\ escaped' = ""
    /\ calls' = 0
    /\ UNCHANGED <<OPENAI_AVAILABLE, OPENAI_API_KEY, client, use_ai, rag, narrative,
                   shodanVars,
                   threads, session>>

set_devices(ds) ==
    /\ pc \notin {"awaiting", "blocked"}
    /\ devices' = ds
    /\ given' = ds
    /\ pc' = "idle"
    /\ invoked' = <<>>
    /\ requests' = 0
    /\ response' = NoResponse
    /\ result' = NoResult
    /\ escaped' = ""
    /\ calls' = 0
    /\ UNCHANGED <<OPENAI_AVAILABLE, OPENAI_API_KEY, client, use_ai, rag, narrative,
                   shodanVars,
                   threads, session>>

\* analyze from its entry to its return, or to the remote request where it blocks
analyze(u) ==
    /\ pc \notin {"awaiting", "blocked"}
    /\ calls < MaxCalls
    /\ use_ai' = u
    /\ response' = NoResponse
    /\ IF devices = <<>>
       THEN /\ result' = analyze_no_devices
            /\ invoked' = <<>>
            /\ requests' = 0
            /\ escaped' = ""
            /\ pc' = "done"
            /\ UNCHANGED devices
       ELSE IF u /\ OPENAI_AVAILABLE
       THEN \E g \in {generate_attack_vector_with_ai(devices)} :
                /\ invoked' = g.invoked
                /\ IF g.state = "request"
                   THEN /\ pc' = "awaiting"
                        /\ requests' = 1
                        /\ devices' = g.devices
                        /\ result' = NoResult
                        /\ escaped' = ""
                   ELSE /\ requests' = 0
                        /\ Complete(g)
       ELSE \E g \in {rule_based_attack_vector(devices)} :
                /\ invoked' = g.invoked
                /\ requests' = 0
                /\ Complete(g)
    /\ calls' = calls + 1
    /\ UNCHANGED <<OPENAI_AVAILABLE, OPENAI_API_KEY, client, given, rag, narrative,
                   shodanVars,
                   threads, session>>

\* the remote request ends (with a response or with an exception) and analyze
\* runs to its return
remote_response(resp) ==
    /\ pc = "awaiting"
    /\ response' = resp
    /\ \E g \in {generate_attack_vector_with_ai_response(devices, resp)} :
           /\ invoked' = invoked \o g.invoked
           /\ requests' = requests + g.requests
           /\ Complete(g)
    /\ UNCHANGED <<OPENAI_AVAILABLE, OPENAI_API_KEY, client, given, use_ai, rag,
                   narrative, shodanVars,
                   threads, session, calls>>

\* the remote request never ends: create() is called without a timeout and
\* analyze has no other way out of it
remote_never_responds ==
    /\ pc = "awaiting"
    /\ pc' = "blocked"
    /\ UNCHANGED <<OPENAI_AVAILABLE, OPENAI_API_KEY, client, devices, given, use_ai,
                   invoked, requests, response, result, escaped, rag, narrative, shodanVars,
                   threads, session, calls>>

NoNarrative == [generator |-> "none"]

\* a caller runs the simulated generator on a device list of its own
call_simulation_attack_vector(devs) ==
    /\ LET g == simulation_attack_vector(devs)
       IN  narrative' = [generator |-> "simulation", devices |-> devs,
                         outcome |-> g.outcome, devices_after |-> g.devices]
    /\ UNCHANGED <<OPENAI_AVAILABLE, OPENAI_API_KEY, client, devices, given, pc, use_ai,
                   invoked, requests, response, result, escaped, rag, shodanVars,
                   threads, session, calls>>

\* a caller runs the rule-based generator on a device list of its own
call_rule_based_attack_vector(devs) ==
    /\ LET g == rule_based_attack_vector(devs)
       IN  narrative' = [generator |-> "rule_based", devices |-> devs,
                         outcome |-> g.outcome, devices_after |-> g.devices]
    /\ UNCHANGED <<OPENAI_AVAILABLE, OPENAI_API_KEY, client, devices, given, pc, use_ai,
                   invoked, requests, response, result, escaped, rag, shodanVars,
                   threads, session, calls>>

-----------------------------------------------------------------------------
(* Two analyzers whose analyze calls run in two threads *)

NoThreads == <<>>
Analyzers == {1, 2}

ThreadScoreChoices == {Str("high"), Num(40), Num(90)}

\* the lists of analyzer a: no device of one analyzer is a device of the other
ThreadDeviceLists(a) ==
    UNION {{[i \in 1..n |-> Device(10 * a + i, f[i])] : f \in [1..n -> ThreadScoreChoices]} :
              n \in 0..MaxThreadDevices}

\* an analyzer after AttackVectorAnalyzer(ds), and no call of analyze yet
Analyzer(ds) ==
    [pc |-> "idle", use_ai |-> FALSE, devices |-> ds, given |-> ds,
     attack_vector |-> <<>>, response |-> NoResponse, result |-> NoResult,
     escaped |-> "", overlapped |-> FALSE]

\* variant: devices is an attribute of the class, the list of the analyzer
\* that was constructed last
self_devices_of_class(a) == threads[2].devices

\* self.devices in the analyze call of analyzer a
self_devices(a) == threads[a].devices

\* the call of analyzer a is between its entry and its return
Running(a) == threads[a].pc \in {"generate", "awaiting", "statistics"}

\* the thread of analyzer a takes a step that leaves its analyzer as next;
\* overlapped records that a step was taken while both calls were running
Step(a, next) ==
    /\ threads' =
           [b \in Analyzers |->
               IF b = a
               THEN [next EXCEPT !.overlapped = @ \/ \E c \in Analyzers \ {a} : Running(c)]
               ELSE IF Running(b) THEN [threads[b] EXCEPT !.overlapped = TRUE]
               ELSE threads[b]]
    /\ UNCHANGED <<OPENAI_AVAILABLE, OPENAI_API_KEY, client, devices, given, pc, use_ai,
                   invoked, requests, response, result, escaped, rag, narrative,
                   shodanVars, session, calls>>

\* analyze is entered: if not self.devices
thread_analyze(a, u) ==
    /\ threads[a].pc = "idle"
    /\ IF self_devices(a) = <<>>
       THEN Step(a, [threads[a] EXCEPT !.use_ai = u, !.result = analyze_no_devices,
                                       !.pc = "done"])
       ELSE Step(a, [threads[a] EXCEPT !.use_ai = u, !.pc = "generate"])

\* the generator call of the try block, to its return or to the remote request
thread_generate(a) ==
    /\ threads[a].pc = "generate"
    /\ \E g \in {IF threads[a].use_ai /\ OPENAI_AVAILABLE
                  THEN generate_attack_vector_with_ai(self_devices(a))
                  ELSE rule_based_attack_vector(self_devices(a)) @@ [state |-> "returned"]} :
           IF g.state = "request"
           THEN Step(a, [threads[a] EXCEPT !.devices = g.devices, !.pc = "awaiting"])
           ELSE IF g.outcome.raised
           THEN \E end \in {analyze_except(g.outcome)} :
                    Step(a, [threads[a] EXCEPT !.devices = g.devices,
                                               !.result = end.result,
                                               !.escaped = end.escaped,
                                               !.pc = "done"])
           ELSE Step(a, [threads[a] EXCEPT !.devices = g.devices,
                                           !.attack_vector = g.outcome.value,
                                           !.pc = "statistics"])

\* the remote request of analyzer a ends, with a response or with an exception
thread_remote_response(a, resp) ==
    /\ threads[a].pc = "awaiting"
    /\ \E g \in {generate_attack_vector_with_ai_response(self_devices(a), resp)} :
           IF g.outcome.raised
           THEN \E end \in {analyze_except(g.outcome)} :
                    Step(a, [threads[a] EXCEPT !.response = resp,
                                               !.devices = g.devices,
                                               !.result = end.result,
                                               !.escaped = end.escaped,
                                               !.pc = "done"])
           ELSE Step(a, [threads[a] EXCEPT !.response = resp,
                                           !.devices = g.devices,
                                           !.attack_vector = g.outcome.value,
                                           !.pc = "statistics"])

\* the statistics over self.devices, the result record and the return
thread_statistics(a) ==
    /\ threads[a].pc = "statistics"
    /\ \E end \in {analyze_except(analyze_statistics(threads[a].attack_vector,
                                                     self_devices(a)))} :
           Step(a, [threads[a] EXCEPT !.result = end.result,
                                      !.escaped = end.escaped,
                                      !.pc = "done"])

-----------------------------------------------------------------------------
(* The integrated dashboard: query_generator.py and the pages of integrated_app.py *)

\* no page of a dashboard has run
NoSession == [none |-> TRUE]

\* the city names a user types into the search form
CityNames == {"Vladivostok", "vladivostok", "SYDNEY", "Singapore", "Atlantis", ""}

\* the search terms, and the radii of the slider from 1 to 20
SearchTerms == {"ICS", "SCADA"}
Radii == {1, 5, 20}

\* city_name.lower() on these names
lower(city_name) ==
    CASE city_name = "Vladivostok" -> "vladivostok"
      [] city_name = "SYDNEY" -> "sydney"
      [] city_name = "Singapore" -> "singapore"
      [] OTHER -> city_name

\* a coordinate pair, in ten-thousandths of a degree
Coordinates(lat, lon) == [lat |-> lat, lon |-> lon]

\* the hardcoded dictionary of port cities
city_coords ==
    [c \in {"vladivostok", "san francisco", "shanghai", "rotterdam", "dubai",
            "singapore", "long beach", "houston", "tokyo", "sydney"} |->
        CASE c = "vladivostok" -> Coordinates(431056, 1318735)
          [] c = "san francisco" -> Coordinates(377749, -1224194)
          [] c = "shanghai" -> Coordinates(312304, 1214737)
          [] c = "rotterdam" -> Coordinates(519244, 44777)
          [] c = "dubai" -> Coordinates(252048, 552708)
          [] c = "singapore" -> Coordinates(13521, 1038198)
          [] c = "long beach" -> Coordinates(337701, -1181937)
          [] c = "houston" -> Coordinates(297604, -953698)
          [] c = "tokyo" -> Coordinates(356762, 1396503)
          [] c = "sydney" -> Coordinates(-338688, 1512093)]

city_to_coordinates(city_name) ==
    LET normalized_city == lower(city_name)
    IN  IF normalized_city \in DOMAIN city_coords
        THEN city_coords[normalized_city]
        ELSE None

\* bool(v) of None, of a string and of a dict
bool(v) ==
    IF "none" \in DOMAIN v THEN FALSE
    ELSE IF "str" \in DOMAIN v THEN v.str # <<>>
    ELSE DOMAIN v # {}

\* v[k] of None, of a string and of a dict with string keys
subscript(v, k) ==
    IF "none" \in DOMAIN v THEN Raise("'NoneType' object is not subscriptable")
    ELSE IF "str" \in DOMAIN v THEN Raise("string indices must be integers, not 'str'")
    ELSE IF k \in DOMAIN v THEN Ok(v[k])
    ELSE Raise("KeyError")

\* f"City '{city_name}' not found in our database."
NotFoundMessage(city_name) ==
    Str(<<"City '", city_name, "' not found in our database.">>)

\* the pair generate_shodan_query returns: (query, coords), or
\* (None, error_message) for a city that is not in the dictionary
generate_shodan_query(city_name, search_term, radius_km) ==
    LET coords == city_to_coordinates(city_name)
    IN  IF ~bool(coords)
        THEN <<None, NotFoundMessage(city_name)>>
        ELSE <<[geo |-> <<coords.lat, coords.lon, radius_km>>, term |-> search_term],
               coords>>

PortScanner == "Port Scanner"
Dashboard == "Digital Twin Dashboard"

\* what a script run left on the page
Shown(kind) == [kind |-> kind]
ShownQuery(kind, query) == [kind |-> kind, query |-> query]
ShownError(message) == [kind |-> "error", message |-> message]
ShownException(error) == [kind |-> "exception", error |-> error]
ShownMap(lat, lon) == [kind |-> "map", center |-> <<lat, lon>>]

\* st.session_state after the first script run
first_run ==
    [city_name |-> "Vladivostok", shodan_data |-> None, coords |-> None,
     devices |-> None, page |-> PortScanner, shown |-> Shown("form")]

\* load_dummy_data(): the devices of data/dummy_data.json, [] without the file
load_dummy_data(dummy_data) == IF dummy_data THEN <<"dummy device">> ELSE <<>>

\* create_port_map(devices, city_coords) up to the centre of the map
create_port_map(map_coords) ==
    IF bool(map_coords)
    THEN LET center_lat == subscript(map_coords, "lat")
             center_lon == subscript(map_coords, "lon")
         IN  IF center_lat.raised THEN center_lat
             ELSE IF center_lon.raised THEN center_lon
             ELSE Ok(<<center_lat.value, center_lon.value>>)
    ELSE Ok(<<327157, -1171611>>)

\* a script run of the Digital Twin Dashboard page on the session state s
dashboard_run(s, dummy_data) ==
    LET devs == IF bool(s.devices) THEN s.devices ELSE Str(load_dummy_data(dummy_data))
    IN  IF bool(devs)
        THEN LET port_map == create_port_map(s.coords)
             IN  IF port_map.raised
                 THEN [s EXCEPT !.shown = ShownException(port_map.error)]
                 ELSE [s EXCEPT !.shown = ShownMap(port_map.value[1], port_map.value[2])]
        ELSE [s EXCEPT !.shown = Shown("no device data")]

\* a script run of the Port Scanner page with one of the two buttons of the
\* search form pressed; processed tells whether the sample data was there and
\* was analysed
search_run(s, city_name, search_term, radius, proceed_to_dashboard, processed, dummy_data) ==
    LET q == generate_shodan_query(city_name, search_term, radius)
        query == q[1]
        coords == q[2]
        stored == [s EXCEPT !.city_name = city_name, !.coords = coords]
    IN  IF ~bool(coords)
        THEN [stored EXCEPT !.shown = ShownError(query)]
        ELSE LET lat == subscript(coords, "lat")
                 lon == subscript(coords, "lon")
             IN  IF lat.raised THEN [stored EXCEPT !.shown = ShownException(lat.error)]
                 ELSE IF lon.raised THEN [stored EXCEPT !.shown = ShownException(lon.error)]
                 ELSE IF ~processed
                 THEN [stored EXCEPT
                          !.shown = ShownQuery("error processing data", query)]
                 ELSE LET analysed ==
                              [stored EXCEPT
                                  !.shodan_data = [city |-> city_name],
                                  !.devices = Str(load_dummy_data(dummy_data)
                                                      \o <<"Port System">>)]
                      IN  IF proceed_to_dashboard
                          THEN dashboard_run([analysed EXCEPT !.page = Dashboard],
                                             dummy_data)
                          ELSE [analysed EXCEPT !.shown = ShownQuery("results", query)]

\* the session takes a new state; nothing else is touched
Run(next) ==
    /\ session' = next
    /\ UNCHANGED <<OPENAI_AVAILABLE, OPENAI_API_KEY, client, devices, given, pc, use_ai,
                   invoked, requests, response, result, escaped, rag, narrative,
                   shodanVars, threads, calls>>

\* the user submits the search form
search(city_name, search_term, radius, proceed_to_dashboard, processed, dummy_data) ==
    /\ session.page = PortScanner
    /\ Run(search_run(session, city_name, search_term, radius, proceed_to_dashboard,
                      processed, dummy_data))

\* the user picks a page in the sidebar
select_page(page, dummy_data) ==
    IF page = PortScanner
    THEN Run([session EXCEPT !.page = page, !.shown = Shown("form")])
    ELSE Run(dashboard_run([session EXCEPT !.page = page], dummy_data))

-----------------------------------------------------------------------------
(* calculate_rag_status, the copy of app.py and the copy of integrated_app.py *)

NoRag == [none |-> TRUE]

app_calculate_rag_status(score) ==
    IF score >= 70 THEN "RED"
    ELSE IF score >= 40 THEN "AMBER"
    ELSE "GREEN"

\* variant: 7 itself falls into the lower class
integrated_app_calculate_rag_status_exclusive(score) ==
    IF score > 70 THEN "RED"
    ELSE IF score >= 40 THEN "AMBER"
    ELSE "GREEN"

integrated_app_calculate_rag_status(score) ==
    IF score >= 70 THEN "RED"
    ELSE IF score >= 40 THEN "AMBER"
    ELSE "GREEN"

\* a dashboard classifies one score
calculate_rag_status(score) ==
    /\ rag' = [vuln_score |-> score,
               app |-> app_calculate_rag_status(score),
               integrated_app |-> integrated_app_calculate_rag_status(score)]
    /\ UNCHANGED <<OPENAI_AVAILABLE, OPENAI_API_KEY, client, devices, given, pc,
                   use_ai, invoked, requests, response, result, escaped, narrative, shodanVars,
                   threads, session, calls>>

-----------------------------------------------------------------------------
(* The Shodan conversion *)

\* A text is the sequence of its symbols: a character, or a word that holds
\* no colon and no white space and is kept whole.
NL == "\n"
Whitespace == {" ", NL}

RECURSIVE lstrip(_)
lstrip(s) == IF s # <<>> /\ Head(s) \in Whitespace THEN lstrip(Tail(s)) ELSE s

RECURSIVE rstrip(_)
rstrip(s) ==
    IF s # <<>> /\ s[Len(s)] \in Whitespace THEN rstrip(SubSeq(s, 1, Len(s) - 1)) ELSE s

\* str.strip()
strip(s) == rstrip(lstrip(s))

\* c in s
contains(s, c) == \E i \in 1..Len(s) : s[i] = c

RECURSIVE split_from(_, _, _)
split_from(s, sep, piece) ==
    IF s = <<>> THEN <<piece>>
    ELSE IF Head(s) = sep THEN <<piece>> \o split_from(Tail(s), sep, <<>>)
    ELSE split_from(Tail(s), sep, Append(piece, Head(s)))

\* s.split(sep)
split(s, sep) == split_from(s, sep, <<>>)

RECURSIVE newlines_at_head(_)
\* the length of the run of newlines s starts with
newlines_at_head(s) ==
    IF s # <<>> /\ Head(s) = NL THEN 1 + newlines_at_head(Tail(s)) ELSE 0

RECURSIVE re_split_from(_, _)
re_split_from(s, piece) ==
    IF s = <<>> THEN <<piece>>
    ELSE IF newlines_at_head(s) >= 2
         THEN <<piece>> \o re_split_from(SubSeq(s, newlines_at_head(s) + 1, Len(s)), <<>>)
         ELSE re_split_from(Tail(s), Append(piece, Head(s)))

\* re.split(r'\n\n+', content)
re_split(content) == re_split_from(content, <<>>)

RECURSIVE find(_, _)
\* the index of the first c of s, for s that holds one
find(s, c) == IF Head(s) = c THEN 1 ELSE 1 + find(Tail(s), c)

\* variant: key, value = line.rsplit(':', 1)
line_rsplit(line) ==
    LET last == CHOOSE i \in 1..Len(line) :
                    line[i] = ":" /\ \A j \in (i + 1)..Len(line) : line[j] # ":"
    IN  <<SubSeq(line, 1, last - 1), SubSeq(line, last + 1, Len(line))>>

\* key, value = line.split(':', 1)
line_split(line) ==
    <<SubSeq(line, 1, find(line, ":") - 1), SubSeq(line, find(line, ":") + 1, Len(line))>>

\* d[k] = v
DictSet(d, k, v) == [x \in DOMAIN d \cup {k} |-> IF x = k THEN v ELSE d[x]]

RECURSIVE host_data_of(_, _)
\* the loop over the lines of a block
host_data_of(lines, host_data) ==
    IF lines = <<>> THEN host_data
    ELSE host_data_of(Tail(lines),
             IF contains(Head(lines), ":")
             THEN DictSet(host_data, strip(line_split(Head(lines))[1]),
                                     strip(line_split(Head(lines))[2]))
             ELSE host_data)

\* variant: parsed_data["hosts"].append(host_data) without the test
host_records_unconditional(host_data) == <<host_data>>

\* if host_data: parsed_data["hosts"].append(host_data)
host_records(host_data) == IF DOMAIN host_data = {} THEN <<>> ELSE <<host_data>>

RECURSIVE hosts_of(_)
\* the loop over the blocks
hosts_of(host_blocks) ==
    IF host_blocks = <<>> THEN <<>>
    ELSE IF strip(Head(host_blocks)) = <<>> THEN hosts_of(Tail(host_blocks))
    ELSE host_records(host_data_of(split(Head(host_blocks), NL), EmptyDict))
             \o hosts_of(Tail(host_blocks))

\* the document parse_text_file builds from the content of filepath
parsed_document(content, filepath) ==
    [hosts |-> hosts_of(re_split(content)),
     total |-> Len(hosts_of(re_split(content))),
     metadata |-> [source_file |-> filepath, parsed_timestamp |-> None]]

\* The files.  A path is its directory part ("" when it has none) and its
\* name; the file system holds the directories and the files that exist.
Path(d, stem, ext) == [dir |-> d, stem |-> stem, ext |-> ext]
dirname(path) == path.dir
exists(f, path) == path \in DOMAIN f.files
isdir(f, d) == d \in f.dirs

TextFile(content) == [kind |-> "text", content |-> content]
Unreadable(e) == [kind |-> "unreadable", error |-> e]
\* json.dump(parsed_data, f, indent=2)
json_dump(doc) == [kind |-> "json", document |-> doc]

ReadOp(path) == [op |-> "read", path |-> path]
MakedirsOp(d) == [op |-> "makedirs", dir |-> d]
WriteOp(path) == [op |-> "write", path |-> path]

\* how a call ended, with the file system and the operations it left
Ended(outcome, f, ops) == [outcome |-> outcome, fs |-> f, io |-> ops]

\* variant: raise ParseError(...) from e
parse_text_file_except_wrapped(e) == Raise("ParseError")

\* except Exception as e: logger.error(...); raise
parse_text_file_except(e) == Raise(e)

\* the statements of parse_text_file behind the parse: the optional save
parse_text_file_save(doc, f, ops, output_filepath) ==
    IF output_filepath = None THEN Ended(Ok(doc), f, ops)
    ELSE IF dirname(output_filepath) = ""
    THEN Ended(parse_text_file_except("FileNotFoundError"), f,
               Append(ops, MakedirsOp("")))
    ELSE Ended(Ok(doc),
               [dirs |-> f.dirs \cup {dirname(output_filepath)},
                files |-> DictSet(f.files, output_filepath, json_dump(doc))],
               ops \o <<MakedirsOp(dirname(output_filepath)), WriteOp(output_filepath)>>)

\* ShodanResponseParser.parse_text_file(filepath, output_filepath)
parse_text_file(f, filepath, output_filepath) ==
    IF ~exists(f, filepath) THEN Ended(Raise("FileNotFoundError"), f, <<>>)
    ELSE IF f.files[filepath].kind # "text"
    THEN Ended(parse_text_file_except(f.files[filepath].error), f, <<ReadOp(filepath)>>)
    ELSE parse_text_file_save(parsed_document(f.files[filepath].content, filepath),
                              f, <<ReadOp(filepath)>>, output_filepath)

NoFs == [none |-> TRUE]
NoDoc == [none |-> TRUE]
NoCall == [op |-> "none"]

\* a caller runs the parser and keeps the document it returns
call_parse_text_file(filepath, output_filepath) ==
    /\ fs # NoFs
    /\ \E end \in {parse_text_file(fs, filepath, output_filepath)} :
           /\ fs' = end.fs
           /\ io' = end.io
           /\ parsed_data' = IF end.outcome.raised THEN NoDoc ELSE end.outcome.value
           /\ shodan' = [op |-> "parse_text_file", filepath |-> filepath,
                         output_filepath |-> output_filepath, fs |-> fs,
                         outcome |-> end.outcome]
    /\ extracted' = NoCall
    /\ UNCHANGED <<OPENAI_AVAILABLE, OPENAI_API_KEY, client, devices, given, pc, use_ai,
                   invoked, requests, response, result, escaped, rag, narrative,
                   threads, session, calls>>

\* what main stores under metadata before it saves the document again
Timestamp == Str("datetime.now().isoformat()")
Duration == [seconds |-> "duration"]

\* variant: the output directory is created before the input file is looked at
main_makedirs_first(f, input_file, output_file) ==
    LET target == IF output_file = None
                  THEN Path(input_file.dir, input_file.stem, ".json")
                  ELSE output_file
    IN  IF dirname(target) # "" /\ ~isdir(f, dirname(target))
        THEN [status |-> 1,
              fs |-> [dirs |-> f.dirs \cup {dirname(target)}, files |-> f.files],
              io |-> <<MakedirsOp(dirname(target))>>]
        ELSE [status |-> 1, fs |-> f, io |-> <<>>]

\* convert_shodan_response.main() for the arguments input_file and -o output_file
main(f, input_file, output_file) ==
    IF ~exists(f, input_file) THEN [status |-> 1, fs |-> f, io |-> <<>>]
    ELSE LET target == IF output_file = None
                       THEN Path(input_file.dir, input_file.stem, ".json")
                       ELSE output_file
             output_dir == dirname(target)
             create == output_dir # "" /\ ~isdir(f, output_dir)
             made == IF create
                     THEN [dirs |-> f.dirs \cup {output_dir}, files |-> f.files]
                     ELSE f
             ops == IF create THEN <<MakedirsOp(output_dir)>> ELSE <<>>
             end == parse_text_file(made, input_file, target)
         IN  IF end.outcome.raised
             THEN [status |-> 1, fs |-> end.fs, io |-> ops \o end.io]
             ELSE [status |-> 0,
                   fs |-> [dirs |-> end.fs.dirs,
                           files |-> DictSet(end.fs.files, target,
                               json_dump([end.outcome.value EXCEPT
                                   !.metadata = [source_file |-> input_file,
                                                 parsed_timestamp |-> Timestamp,
                                                 processing_time_seconds |-> Duration]]))],
                   io |-> ops \o end.io \o <<WriteOp(target)>>]

\* the command line tool runs
call_main(input_file, output_file, summarize) ==
    /\ fs # NoFs
    /\ \E end \in {main(fs, input_file, output_file)} :
           /\ fs' = end.fs
           /\ io' = end.io
           /\ shodan' = [op |-> "main", input_file |-> input_file,
                         output_file |-> output_file, summarize |-> summarize,
                         fs |-> fs, status |-> end.status]
    /\ parsed_data' = NoDoc
    /\ extracted' = NoCall
    /\ UNCHANGED <<OPENAI_AVAILABLE, OPENAI_API_KEY, client, devices, given, pc, use_ai,
                   invoked, requests, response, result, escaped, rag, narrative,
                   threads, session, calls>>

\* variant: the value only has to be there
truthy_when_present(host, key) == key \in DOMAIN host

\* port = host.get(key) ... if port: the value is there and is not ""
truthy(host, key) == key \in DOMAIN host /\ host[key] # <<>>

IsDigit(c) == c \in {"0", "1", "2", "3", "4", "5", "6", "7", "8", "9"}

DigitValue(c) ==
    CASE c = "0" -> 0 [] c = "1" -> 1 [] c = "2" -> 2 [] c = "3" -> 3 [] c = "4" -> 4
      [] c = "5" -> 5 [] c = "6" -> 6 [] c = "7" -> 7 [] c = "8" -> 8 [] c = "9" -> 9

RECURSIVE decimal(_)
decimal(s) ==
    IF s = <<>> THEN 0
    ELSE 10 * decimal(SubSeq(s, 1, Len(s) - 1)) + DigitValue(s[Len(s)])

\* int(s) for a string of the symbols of this model: digits, white space around them
int(s) ==
    IF strip(s) # <<>> /\ \A i \in 1..Len(strip(s)) : IsDigit(strip(s)[i])
    THEN Ok(decimal(strip(s)))
    ELSE Raise("ValueError")

\* the two ifs that add a port and a service of it
add_service(port_services, port_num, service) ==
    LET known == IF port_num \in DOMAIN port_services
                 THEN port_services[port_num] ELSE <<>>
    IN  DictSet(port_services, port_num,
                IF contains(known, service) THEN known ELSE Append(known, service))

RECURSIVE port_services_of(_, _)
\* the loop over the hosts
port_services_of(hosts, port_services) ==
    IF hosts = <<>> THEN port_services
    ELSE port_services_of(Tail(hosts),
             IF /\ truthy(Head(hosts), <<"Port">>)
                /\ truthy(Head(hosts), <<"Service">>)
                /\ ~int(Head(hosts)[<<"Port">>]).raised
             THEN add_service(port_services, int(Head(hosts)[<<"Port">>]).value,
                              Head(hosts)[<<"Service">>])
             ELSE port_services)

\* ShodanResponseParser.extract_ports_services(parsed_data)
extract_ports_services(doc) == port_services_of(Get(doc, "hosts", <<>>), EmptyDict)

\* host.get(key, default), a string that is there being tagged
get_str(host, key, default) == IF key \in DOMAIN host THEN Str(host[key]) ELSE default

\* variant: "ip": host.get("IP")
vuln_info_ip_none(host) ==
    [ip |-> get_str(host, <<"IP">>, None),
     port |-> get_str(host, <<"Port">>, None),
     service |-> get_str(host, <<"Service">>, None),
     cve |-> get_str(host, <<"CVE">>, None),
     description |-> get_str(host, <<"Vulnerability">>, None)]

vuln_info(host) ==
    [ip |-> get_str(host, <<"IP">>, Str(<<"Unknown">>)),
     port |-> get_str(host, <<"Port">>, None),
     service |-> get_str(host, <<"Service">>, None),
     cve |-> get_str(host, <<"CVE">>, None),
     description |-> get_str(host, <<"Vulnerability">>, None)]

RECURSIVE vulnerabilities_of(_)
vulnerabilities_of(hosts) ==
    IF hosts = <<>> THEN <<>>
    ELSE (IF <<"CVE">> \in DOMAIN Head(hosts) \/ <<"Vulnerability">> \in DOMAIN Head(hosts)
          THEN <<vuln_info(Head(hosts))>> ELSE <<>>) \o vulnerabilities_of(Tail(hosts))

\* ShodanResponseParser.extract_vulnerabilities(parsed_data)
extract_vulnerabilities(doc) == vulnerabilities_of(Get(doc, "hosts", <<>>))

\* a caller derives the port map from the document it holds
call_extract_ports_services ==
    /\ parsed_data # NoDoc
    /\ extracted' = [op |-> "extract_ports_services",
                     value |-> extract_ports_services(parsed_data)]
    /\ UNCHANGED <<OPENAI_AVAILABLE, OPENAI_API_KEY, client, devices, given, pc, use_ai,
                   invoked, requests, response, result, escaped, rag, narrative, fs, io,
                   parsed_data, shodan, threads, session, calls>>

\* a caller derives the findings from the document it holds
call_extract_vulnerabilities ==
    /\ parsed_data # NoDoc
    /\ extracted' = [op |-> "extract_vulnerabilities",
                     value |-> extract_vulnerabilities(parsed_data)]
    /\ UNCHANGED <<OPENAI_AVAILABLE, OPENAI_API_KEY, client, devices, given, pc, use_ai,
                   invoked, requests, response, result, escaped, rag, narrative, fs, io,
                   parsed_data, shodan, threads, session, calls>>

\* The scan texts.  The small alphabet gives every arrangement of newlines,
\* colons, blanks and a letter; the rendered texts are blocks of key: value
\* lines as a Shodan export holds them.
TextSymbols == {NL, ":", " ", "a"}
SmallTexts == UNION {[1..n -> TextSymbols] : n \in 0..MaxText}

Line(key, value) == <<key, ":", " ">> \o value

RECURSIVE Join(_, _)
Join(pieces, sep) ==
    IF pieces = <<>> THEN <<>>
    ELSE IF Len(pieces) = 1 THEN pieces[1]
    ELSE pieces[1] \o sep \o Join(Tail(pieces), sep)

HostBlocks ==
    {Join(<<Line("IP", <<"1.2.3.4">>), Line("Port", <<"8", "0">>),
            Line("Service", <<"http">>)>>, <<NL>>),
     Join(<<Line("IP", <<"5.6.7.8">>), Line("Port", <<"2", "2">>),
            Line("Service", <<"ssh">>)>>, <<NL>>),
     Join(<<Line("Port", <<"8", "0">>), Line("Service", <<"http">>),
            Line("CVE", <<"CVE-2021-0001">>)>>, <<NL>>),
     Join(<<Line("IP", <<"1.2.3.4">>), Line("Port", <<"a">>),
            Line("Service", <<"http">>)>>, <<NL>>),
     Join(<<Line("Port", <<"8", "0">>), <<"Service", ":">>>>, <<NL>>),
     Join(<<Line("IP", <<"5.6.7.8">>), Line("Vulnerability", <<"weak", " ", "login">>)>>,
          <<NL>>),
     Join(<<Line("Port", <<"0", "8", "0">>), Line("Service", <<"ssh">>)>>, <<NL>>),
     Line("Service", <<"http">>)}

HostTexts ==
    UNION {{Join(blocks, <<NL, NL>>) : blocks \in [1..n -> HostBlocks]} : n \in 1..MaxHosts}

\* "IP: 1.2.3.4\nPort: 80\nService: http\n\nIP: 5.6.7.8\nPort: 22\nService: ssh"
ExampleText ==
    Join(<<Join(<<Line("IP", <<"1.2.3.4">>), Line("Port", <<"8", "0">>),
                  Line("Service", <<"http">>)>>, <<NL>>),
           Join(<<Line("IP", <<"5.6.7.8">>), Line("Port", <<"2", "2">>),
                  Line("Service", <<"ssh">>)>>, <<NL>>)>>, <<NL, NL>>)

ScanTexts == SmallTexts \cup HostTexts

ScanPath == Path("data", "scan", ".txt")
BareScanPath == Path("", "scan", ".txt")
InputPaths == {ScanPath, BareScanPath}
OutputArgs == {None, Path("", "hosts", ".json"), Path("out", "hosts", ".json"),
               Path("data", "scan", ".json")}

ReadErrors == {"PermissionError", "UnicodeDecodeError"}

\* the analyzer plays no part
AnalyzerIdle ==
    /\ OPENAI_AVAILABLE = FALSE
    /\ OPENAI_API_KEY = <<>>
    /\ client = "None"
    /\ devices = <<>>
    /\ given = <<>>
    /\ pc = "idle"
    /\ use_ai = FALSE
    /\ invoked = <<>>
    /\ requests = 0
    /\ response = NoResponse
    /\ result = NoResult
    /\ escaped = ""
    /\ rag = NoRag
    /\ narrative = NoNarrative
    /\ threads = NoThreads
    /\ session = NoSession
    /\ calls = 0

\* nothing of the conversion has run
ShodanIdle ==
    /\ fs = NoFs
    /\ io = <<>>
    /\ parsed_data = NoDoc
    /\ shodan = NoCall
    /\ extracted = NoCall

-----------------------------------------------------------------------------
(* Specifications *)

\* the state after import and AttackVectorAnalyzer(ds)
Constructed(lists) ==
    /\ devices \in lists
    /\ given = devices
    /\ pc = "idle"
    /\ use_ai = FALSE
    /\ invoked = <<>>
    /\ requests = 0
    /\ response = NoResponse
    /\ result = NoResult
    /\ escaped = ""
    /\ rag = NoRag
    /\ narrative = NoNarrative
    /\ ShodanIdle
    /\ threads = NoThreads
    /\ session = NoSession
    /\ calls = 0

\* the analyzer life cycle under every configuration the import can leave
Init ==
    /\ OPENAI_AVAILABLE \in BOOLEAN
    /\ OPENAI_API_KEY \in KeyChoices
    /\ client \in ClientChoices(OPENAI_AVAILABLE, OPENAI_API_KEY)
    /\ Constructed(DeviceLists)

Next ==
    \/ \E ds \in DeviceLists : set_devices(ds)
    \/ \E u \in BOOLEAN : analyze(u)
    \/ \E resp \in Responses : remote_response(resp)
    \/ remote_never_responds

Spec == Init /\ [][Next]_vars

\* the keys that tell the branches of the remote generator apart
ThreadKeyChoices == {<<>>, sk_demo, sk_live}

\* two analyzers with lists of their own, under every configuration, and one
\* analyze call of each in a thread of its own
InitThreads ==
    /\ OPENAI_AVAILABLE \in BOOLEAN
    /\ OPENAI_API_KEY \in ThreadKeyChoices
    /\ client \in ClientChoices(OPENAI_AVAILABLE, OPENAI_API_KEY)
    /\ devices = <<>>
    /\ given = <<>>
    /\ pc = "idle"
    /\ use_ai = FALSE
    /\ invoked = <<>>
    /\ requests = 0
    /\ response = NoResponse
    /\ result = NoResult
    /\ escaped = ""
    /\ rag = NoRag
    /\ narrative = NoNarrative
    /\ ShodanIdle
    /\ session = NoSession
    /\ calls = 0
    /\ \E d1 \in ThreadDeviceLists(1), d2 \in ThreadDeviceLists(2) :
           threads = [a \in Analyzers |-> Analyzer(IF a = 1 THEN d1 ELSE d2)]

NextThreads ==
    \E a \in Analyzers :
        \/ \E u \in BOOLEAN : thread_analyze(a, u)
        \/ thread_generate(a)
        \/ \E resp \in Responses : thread_remote_response(a, resp)
        \/ thread_statistics(a)

SpecThreads == InitThreads /\ [][NextThreads]_vars

\* scores below, next to and above the threshold of 7, in [0, 10]
RaisedScoreChoices == {Num(0), Num(69), Num(100)}

\* the lists of which a score can be raised
RaisedDeviceLists ==
    UNION {{[i \in 1..n |-> Device(i, f[i])] : f \in [1..n -> RaisedScoreChoices]} :
              n \in 1..MaxRaisedDevices}

\* two analyzers whose lists differ in one device, which has the higher score
\* in the list of the second; the rule-based path without the capability
InitRaised ==
    /\ OPENAI_AVAILABLE = FALSE
    /\ OPENAI_API_KEY = <<>>
    /\ client = "None"
    /\ devices = <<>>
    /\ given = <<>>
    /\ pc = "idle"
    /\ use_ai = FALSE
    /\ invoked = <<>>
    /\ requests = 0
    /\ response = NoResponse
    /\ result = NoResult
    /\ escaped = ""
    /\ rag = NoRag
    /\ narrative = NoNarrative
    /\ ShodanIdle
    /\ session = NoSession
    /\ calls = 0
    /\ \E d1 \in RaisedDeviceLists :
           \E i \in 1..Len(d1) :
               \E c \in {x \in RaisedScoreChoices : x.num > d1[i].vuln_score.num} :
                   threads = [a \in Analyzers |->
                                 Analyzer(IF a = 1 THEN d1
                                          ELSE [d1 EXCEPT ![i] = Device(i, c)])]

NextRaised ==
    \E a \in Analyzers :
        \/ thread_analyze(a, FALSE)
        \/ thread_generate(a)
        \/ thread_statistics(a)

SpecRaised == InitRaised /\ [][NextRaised]_vars

\* the integrated dashboard after its first script run
InitDashboard ==
    /\ OPENAI_AVAILABLE = FALSE
    /\ OPENAI_API_KEY = <<>>
    /\ client = "None"
    /\ devices = <<>>
    /\ given = <<>>
    /\ pc = "idle"
    /\ use_ai = FALSE
    /\ invoked = <<>>
    /\ requests = 0
    /\ response = NoResponse
    /\ result = NoResult
    /\ escaped = ""
    /\ rag = NoRag
    /\ narrative = NoNarrative
    /\ ShodanIdle
    /\ threads = NoThreads
    /\ calls = 0
    /\ session = first_run

NextDashboard ==
    \/ \E city_name \in CityNames, search_term \in SearchTerms, radius \in Radii :
           \E proceed, processed, dummy_data \in BOOLEAN :
               search(city_name, search_term, radius, proceed, processed, dummy_data)
    \/ \E page \in {PortScanner, Dashboard} : \E dummy_data \in BOOLEAN :
           select_page(page, dummy_data)

SpecDashboard == InitDashboard /\ [][NextDashboard]_vars

\* analyze with use_ai on the remote path: the capability, a real credential
\* and a client are there
InitRemote ==
    /\ OPENAI_AVAILABLE = TRUE
    /\ OPENAI_API_KEY = sk_live
    /\ client = "OpenAI"
    /\ Constructed(DeviceLists)

NextRemote ==
    \/ analyze(TRUE)
    \/ \E resp \in Responses : remote_response(resp)
    \/ remote_never_responds

\* a step that can be taken eventually is: the interpreter goes on with a
\* call that can go on
SpecRemote == InitRemote /\ [][NextRemote]_vars /\ WF_vars(NextRemote)

\* the two template generators called directly on devices that lack fields
InitFields ==
    /\ OPENAI_AVAILABLE = FALSE
    /\ OPENAI_API_KEY = <<>>
    /\ client = "None"
    /\ Constructed(FieldDeviceLists)

\* the caller hands the generators the list it holds
NextFields ==
    \/ call_simulation_attack_vector(given)
    \/ call_rule_based_attack_vector(given)

SpecFields == InitFields /\ [][NextFields]_vars

\* a scan text is parsed and the two views are derived from the document
InitParse ==
    /\ AnalyzerIdle
    /\ \E content \in ScanTexts :
           fs = [dirs |-> {"data"}, files |-> (ScanPath :> TextFile(content))]
    /\ io = <<>>
    /\ parsed_data = NoDoc
    /\ shodan = NoCall
    /\ extracted = NoCall

NextParse ==
    \/ call_parse_text_file(ScanPath, None)
    \/ call_extract_ports_services
    \/ call_extract_vulnerabilities

SpecParse == InitParse /\ [][NextParse]_vars

\* the parser and the command line tool over files that are absent, unreadable
\* or readable, and output paths with and without a directory part
InitConvert ==
    /\ AnalyzerIdle
    /\ \E ds \in SUBSET {"data", "out"} :
           \/ fs = [dirs |-> ds, files |-> EmptyDict]
           \/ \E path \in InputPaths :
                  \E file \in {TextFile(ExampleText), TextFile(<<"a">>)}
                                \cup {Unreadable(e) : e \in ReadErrors} :
                      /\ dirname(path) \in ds \cup {""}
                      /\ fs = [dirs |-> ds, files |-> (path :> file)]
    /\ io = <<>>
    /\ parsed_data = NoDoc
    /\ shodan = NoCall
    /\ extracted = NoCall

NextConvert ==
    \/ \E path \in InputPaths : \E out \in OutputArgs : call_parse_text_file(path, out)
    \/ \E path \in InputPaths : \E out \in OutputArgs : \E summarize \in BOOLEAN :
           call_main(path, out, summarize)

SpecConvert == InitConvert /\ [][NextConvert]_vars

\* ranking, path selection and scoring applied to longer device lists, under
\* the placeholder credential (use_ai picks the simulated or the rule-based
\* generator)
InitPath ==
    /\ OPENAI_AVAILABLE = TRUE
    /\ OPENAI_API_KEY = sk_demo
    /\ client = "OpenAI"
    /\ Constructed(PathDeviceLists)

NextPath == \E u \in BOOLEAN : analyze(u)

SpecPath == InitPath /\ [][NextPath]_vars

\* the same lists, handed to analyze and by a caller to either generator
NextSelect ==
    \/ \E u \in BOOLEAN : analyze(u)
    \/ call_simulation_attack_vector(given)
    \/ call_rule_based_attack_vector(given)

SpecSelect == InitPath /\ [][NextSelect]_vars

\* the dashboards classify scores
InitRag ==
    /\ OPENAI_AVAILABLE = FALSE
    /\ OPENAI_API_KEY = <<>>
    /\ client = "None"
    /\ Constructed({<<>>})

NextRag == \E score \in (0 - MaxNegRagScore)..MaxRagScore : calculate_rag_status(score)

SpecRag == InitRag /\ [][NextRag]_vars

-----------------------------------------------------------------------------
(* Properties *)

Started == pc \in {"awaiting", "done"}

\* the narrative part a generator rendered from its ranking, when there is one
Rendered(r) ==
    {r.attack_vector[i] : i \in {j \in 1..Len(r.attack_vector) :
                                   r.attack_vector[j].kind \in {"rule_based", "simulation"}}}

\* the credential is present and carries the placeholder prefix "sk-demo"
IsPlaceholder(key) == key # <<>> /\ Len(key) >= 7 /\ SubSeq(key, 1, 7) = sk_demo

\* C1 as stated: for a non-empty device list the first generator analyze
\* enters is the remote one when use_ai, the capability and a real credential
\* are all there, the simulated one when use_ai holds and the credential is the
\* placeholder, and the rule-based one otherwise.
C1_SelectionAsStated ==
    (Started /\ given # <<>>) =>
        Head(invoked) =
            IF use_ai /\ OPENAI_AVAILABLE /\ OPENAI_API_KEY # <<>>
                      /\ ~IsPlaceholder(OPENAI_API_KEY)
            THEN "remote"
            ELSE IF use_ai /\ IsPlaceholder(OPENAI_API_KEY)
            THEN "simulation"
            ELSE "rule_based"

\* C1 amended: the simulated generator is selected only when the capability
\* is available too; with use_ai and the placeholder credential but without
\* the capability the rule-based generator is selected.
C1_Selection ==
    (Started /\ given # <<>>) =>
        Head(invoked) =
            IF use_ai /\ OPENAI_AVAILABLE /\ OPENAI_API_KEY # <<>>
                      /\ ~IsPlaceholder(OPENAI_API_KEY)
            THEN "remote"
            ELSE IF use_ai /\ OPENAI_AVAILABLE /\ IsPlaceholder(OPENAI_API_KEY)
            THEN "simulation"
            ELSE "rule_based"

C1_Witness ==
    /\ pc = "done"
    /\ given # <<>>
    /\ use_ai
    /\ ~OPENAI_AVAILABLE
    /\ IsPlaceholder(OPENAI_API_KEY)
    /\ invoked = <<"rule_based">>
    /\ result.success

\* C2: when the remote request of an analyze call on a non-empty list of
\* devices with numeric or absent scores fails, nothing is raised to the
\* caller and the call returns success with the simulated generator's
\* narrative for the same devices followed by a note holding the error text.
C2_RemoteFailureFallsBack ==
    (pc = "done" /\ response.status = "error" /\ given # <<>> /\ WellFormed(given)) =>
        /\ escaped = ""
        /\ "success" \in DOMAIN result
        /\ result.success
        /\ Len(result.attack_vector) = 2
        /\ result.attack_vector[1].kind = "simulation"
        /\ <<result.attack_vector[1]>> = simulation_attack_vector(given).outcome.value
        /\ result.attack_vector[2].kind = "note"
        /\ result.attack_vector[2].error = response.error

C2_Witness ==
    /\ pc = "done"
    /\ response.status = "error"
    /\ response.error = "Connection error."
    /\ Len(given) >= 2
    /\ WellFormed(given)
    /\ result.success
    /\ Len(result.attack_vector) = 2

\* C3 as stated: analyze on an empty device list raises nothing, enters no
\* generator, computes no score and returns success false with the error
\* text "no devices available".
C3_EmptyAsStated ==
    (pc = "done" /\ given = <<>>) =>
        /\ escaped = ""
        /\ invoked = <<>>
        /\ DOMAIN result = {"success", "error", "attack_vector"}
        /\ ~result.success
        /\ result.error = "no devices available"

\* C3 amended: the same, with the error text "No devices available for
\* analysis".
C3_Empty ==
    (pc = "done" /\ given = <<>>) =>
        /\ escaped = ""
        /\ invoked = <<>>
        /\ DOMAIN result = {"success", "error", "attack_vector"}
        /\ ~result.success
        /\ result.error = "No devices available for analysis"

C3_Witness ==
    /\ pc = "done"
    /\ given = <<>>
    /\ use_ai
    /\ OPENAI_AVAILABLE
    /\ ~result.success

\* the number of devices of a list whose score is at least 7
HighCount(devs) == Cardinality({i \in 1..Len(devs) : vuln_score(devs[i]).num >= 70})

\* min(10, mean * 0.7 + high * 0.6) rounded to one decimal, in tenths
StatedRisk(devs) ==
    LET mean == Rat(SumScores(devs), 10 * Len(devs))
        raw == RatAdd(RatMul(mean, Rat(7, 10)), RatMul(Rat(HighCount(devs), 1), Rat(6, 10)))
    IN  round1(IF RatLe(Rat(10, 1), raw) THEN Rat(10, 1) ELSE raw)

Scores(devs) == [i \in 1..Len(devs) |-> vuln_score(devs[i]).num]

C5_RiskScoreRange ==
    (pc = "done" /\ given # <<>> /\ WellFormed(given)
        /\ \A i \in 1..Len(given) : Scores(given)[i] \in 0..100) =>
        /\ result.success
        /\ result.risk_score >= 0
        /\ result.risk_score <= 100

\* six devices of score 10: 10 * 0.7 + 6 * 0.6 = 10.6 is capped
C5_Witness ==
    /\ pc = "done"
    /\ Len(given) >= 6
    /\ \A i \in 1..Len(given) : Scores(given)[i] = 100
    /\ result.success
    /\ result.risk_score = 100

\* C6: in every narrative of the rule-based and of the simulated generator
\* the lateral targets exclude the entry point, are at most 3 and have
\* vuln_score >= 4 each, an absent score counting as 0.
C6_LateralTargets ==
    (pc = "done" /\ "attack_vector" \in DOMAIN result) =>
        \A part \in Rendered(result) :
            /\ Len(part.lateral_targets) <= 3
            /\ \A i \in 1..Len(part.lateral_targets) :
                /\ part.lateral_targets[i].name # part.entry_point.name
                /\ part.lateral_targets[i] # part.entry_point
                /\ "vuln_score" \in DOMAIN part.lateral_targets[i]
                /\ part.lateral_targets[i].vuln_score.num >= 40

\* five devices qualify behind the entry point, one does not; three are kept
C6_Witness ==
    /\ pc = "done"
    /\ result.success
    /\ Len(given) >= 6
    /\ Cardinality({i \in 1..Len(given) : Scores(given)[i] >= 40}) >= 5
    /\ \E i \in 1..Len(given) : "vuln_score" \notin DOMAIN given[i]
    /\ \E part \in Rendered(result) :
          part.kind = "simulation" /\ Len(part.lateral_targets) = 3

\* the input position of the earliest device with the maximal score
EarliestMax(devs) ==
    CHOOSE i \in 1..Len(devs) :
        /\ \A j \in 1..Len(devs) : Scores(devs)[j] <= Scores(devs)[i]
        /\ \A j \in 1..(i - 1) : Scores(devs)[j] < Scores(devs)[i]

\* C7: the ranking holds the devices of the input by descending vuln_score,
\* devices of equal score in their input order, so the entry point is the
\* earliest device of the input with the maximal score.
C7_StableRanking ==
    (pc = "done" /\ given # <<>> /\ WellFormed(given)) =>
        LET r == sorted(given)
        IN  /\ ~r.raised
            /\ Len(r.value) = Len(given)
            /\ \A i \in 1..Len(given) : \E j \in 1..Len(given) : r.value[j] = given[i]
            /\ \A i, j \in 1..Len(given) :
                  i < j => \/ Scores(r.value)[i] > Scores(r.value)[j]
                           \/ /\ Scores(r.value)[i] = Scores(r.value)[j]
                              /\ r.value[i].name < r.value[j].name
            /\ \A part \in Rendered(result) :
                  part.entry_point = given[EarliestMax(given)]

\* the maximal score occurs twice, behind a smaller one
C7_Witness ==
    /\ pc = "done"
    /\ result.success
    /\ Len(given) >= 3
    /\ Scores(given)[1] < Scores(given)[2]
    /\ Scores(given)[2] = Scores(given)[3]
    /\ EarliestMax(given) = 2
    /\ \E part \in Rendered(result) : part.entry_point.name = 2

\* C8: a score >= 7 is RED, a score in [4, 7) is AMBER, a score < 4 is
\* GREEN, and the copies of app.py and integrated_app.py agree.
C8_Classification ==
    rag # NoRag =>
        /\ rag.vuln_score >= 70 => rag.app = "RED"
        /\ (rag.vuln_score >= 40 /\ rag.vuln_score < 70) => rag.app = "AMBER"
        /\ rag.vuln_score < 40 => rag.app = "GREEN"
        /\ rag.integrated_app = rag.app

C8_Witness ==
    /\ rag # NoRag
    /\ rag.vuln_score = 70
    /\ rag.app = "RED"
    /\ rag.integrated_app = "RED"

\* C9: no exception leaves analyze; a call whose generation or scoring
\* raised returns success false with the exception's message.
C9_ErrorBoundary ==
    /\ escaped = ""
    /\ pc = "done" =>
        /\ "success" \in DOMAIN result
        /\ ~result.success => ("error" \in DOMAIN result /\ result.error # "")
        /\ (given # <<>> /\ ~WellFormed(given)) =>
              /\ ~result.success
              /\ result.error \in {TypeErrorLt, TypeErrorGe, TypeErrorAdd}

\* the ranking of a list that mixes a string score with numbers raised
C9_Witness ==
    /\ pc = "done"
    /\ use_ai
    /\ Len(given) >= 2
    /\ ~Comparable(given)
    /\ ~result.success
    /\ result.error = TypeErrorLt
    /\ escaped = ""

\* C10: the list the caller handed over holds the same devices in the same
\* order with the same fields through every call.
C10_NoMutation == devices = given

\* a call returned for a list that ranking would reorder
C10_Witness ==
    /\ pc = "done"
    /\ result.success
    /\ WellFormed(given)
    /\ sorted(given).value # given
    /\ devices = given

\* what analyze returns when the rule-based generator alone wrote the narrative
RuleBasedResult(devs) ==
    [success |-> TRUE,
     attack_vector |-> rule_based_attack_vector(devs).outcome.value,
     risk_score |-> StatedRisk(devs),
     high_vuln_count |-> HighCount(devs),
     avg_vuln_score |-> round1(Rat(SumScores(devs), 10 * Len(devs)))]

\* use_ai was asked for and the capability or the credential is missing
FallbackCase ==
    /\ pc = "done"
    /\ use_ai
    /\ given # <<>>
    /\ WellFormed(given)
    /\ (~OPENAI_AVAILABLE \/ OPENAI_API_KEY = <<>>)

\* C11 as stated: with use_ai and a non-empty list, analyze returns one and
\* the same result (the rule-based narrative and the statistics of the list)
\* whether the capability is unavailable or only the credential is missing.
C11_SameResultAsStated == FallbackCase => result = RuleBasedResult(given)

\* C11 amended: in both cases the statistics are the same and the narrative
\* starts with the same rule-based text; without the capability that is the
\* whole narrative, with the capability but without a credential a note
\* saying that no API key was found follows it.
C11_SameFallback ==
    FallbackCase =>
        result = [RuleBasedResult(given) EXCEPT
                     !.attack_vector =
                         @ \o (IF OPENAI_AVAILABLE
                               THEN <<Note("OpenAI API key not found in secrets.toml or environment. Using rule-based analysis.")>>
                               ELSE <<>>)]

C11_Witness ==
    /\ FallbackCase
    /\ OPENAI_AVAILABLE
    /\ Len(given) >= 2
    /\ result.success
    /\ Len(result.attack_vector) = 2
    /\ result.attack_vector[1].kind = "rule_based"
    /\ result.attack_vector[2].kind = "note"

\* parse_text_file returned a document for the text it read
Parsed == shodan.op = "parse_text_file" /\ ~shodan.outcome.raised

\* the text it read
Content == shodan.fs.files[shodan.filepath].content

\* the blocks that hold something other than white space, and those that hold
\* a line with a colon, by their position
NonBlankBlocks(text) ==
    {i \in 1..Len(re_split(text)) :
        \E j \in 1..Len(re_split(text)[i]) : re_split(text)[i][j] \notin Whitespace}
ColonBlocks(text) ==
    {i \in 1..Len(re_split(text)) :
        \E j \in 1..Len(re_split(text)[i]) : re_split(text)[i][j] = ":"}

\* C12 as stated: total is the number of non-empty blocks of the input.
C12_TotalAsStated ==
    Parsed => parsed_data.total = Cardinality(NonBlankBlocks(Content))

\* C12: total is the number of host records, which is the number of blocks of
\* the input (the pieces between runs of two or more newlines) that hold at
\* least one line with a colon.
C12_Total ==
    Parsed =>
        /\ parsed_data.total = Len(parsed_data.hosts)
        /\ parsed_data.total = Cardinality(ColonBlocks(Content))

\* a text of two non-empty blocks, one of them without a colon, gave total 1
C12_Witness ==
    /\ Parsed
    /\ Cardinality(NonBlankBlocks(Content)) = 2
    /\ Cardinality(ColonBlocks(Content)) = 1
    /\ parsed_data.total = 1

\* the k-th smallest member of a set of positions
Kth(S, k) == CHOOSE i \in S : Cardinality({j \in S : j < i}) = k - 1

FirstColon(line) ==
    CHOOSE i \in 1..Len(line) : line[i] = ":" /\ \A j \in 1..(i - 1) : line[j] # ":"
KeyOf(line) == strip(SubSeq(line, 1, FirstColon(line) - 1))
ValueOf(line) == strip(SubSeq(line, FirstColon(line) + 1, Len(line)))

\* the lines of a block that hold a colon, by their position
ColonLines(block) ==
    {j \in 1..Len(split(block, NL)) : contains(split(block, NL)[j], ":")}

\* C13 as stated: every non-empty block gives one host record, in input
\* order, that maps the key of every line with a colon to the value of that
\* line.
C13_RecordsAsStated ==
    Parsed =>
        /\ Len(parsed_data.hosts) = Cardinality(NonBlankBlocks(Content))
        /\ \A k \in 1..Len(parsed_data.hosts) :
              LET block == re_split(Content)[Kth(NonBlankBlocks(Content), k)]
              IN  \A j \in ColonLines(block) :
                      /\ KeyOf(split(block, NL)[j]) \in DOMAIN parsed_data.hosts[k]
                      /\ parsed_data.hosts[k][KeyOf(split(block, NL)[j])]
                             = ValueOf(split(block, NL)[j])

\* C13: every block with at least one line that holds a colon gives one host
\* record, in input order; its keys are the trimmed texts before the first
\* colon of those lines and the value of a key is the trimmed text after the
\* first colon of the last line with that key; lines without a colon and
\* blocks without such a line give nothing.
C13_Records ==
    Parsed =>
        /\ Len(parsed_data.hosts) = Cardinality(ColonBlocks(Content))
        /\ \A k \in 1..Len(parsed_data.hosts) :
              LET block == re_split(Content)[Kth(ColonBlocks(Content), k)]
                  lines == split(block, NL)
              IN  /\ DOMAIN parsed_data.hosts[k] = {KeyOf(lines[j]) : j \in ColonLines(block)}
                  /\ \A j \in ColonLines(block) :
                        (\A l \in ColonLines(block) :
                             KeyOf(lines[l]) = KeyOf(lines[j]) => l <= j)
                            => parsed_data.hosts[k][KeyOf(lines[j])] = ValueOf(lines[j])

\* the block "a\na::" gave one record that maps a to ":", the line a being
\* skipped
C13_Witness ==
    /\ Parsed
    /\ Content = <<"a", NL, "a", ":", ":">>
    /\ parsed_data.hosts = <<(<<"a">> :> <<":">>)>>

\* the port map came back
PortsExtracted == extracted.op = "extract_ports_services"

IsNumeral(s) == s # <<>> /\ \A i \in 1..Len(s) : IsDigit(s[i])

\* the hosts with a Port that is a numeral and a Service, by their position
WithPortAndService(hosts) ==
    {i \in 1..Len(hosts) :
        /\ <<"Port">> \in DOMAIN hosts[i]
        /\ <<"Service">> \in DOMAIN hosts[i]
        /\ IsNumeral(hosts[i][<<"Port">>])}

\* the map holds the ports and the services of the hosts at the positions S
MapsHosts(map, hosts, S) ==
    /\ DOMAIN map = {decimal(hosts[i][<<"Port">>]) : i \in S}
    /\ \A p \in DOMAIN map :
          /\ {map[p][n] : n \in 1..Len(map[p])}
                 = {hosts[i][<<"Service">>] : i \in {j \in S : decimal(hosts[j][<<"Port">>]) = p}}
          /\ \A m, n \in 1..Len(map[p]) : map[p][m] = map[p][n] => m = n

ExampleMap == (80 :> <<(<<"http">>)>>) @@ (22 :> <<(<<"ssh">>)>>)

\* C14 as stated: the map holds, without duplicates, for each port number the
\* Service names of the hosts that have a Service and a Port parsing as that
\* number, and nothing else; the two-block example gives {80: [http], 22: [ssh]}.
C14_PortMapAsStated ==
    PortsExtracted =>
        /\ MapsHosts(extracted.value, parsed_data.hosts, WithPortAndService(parsed_data.hosts))
        /\ Content = ExampleText => extracted.value = ExampleMap

\* C14: the same for the hosts whose Service is not the empty string: a host
\* whose Service (or Port) is there with nothing behind the colon is skipped
\* like a host whose Port is no number.
C14_PortMap ==
    PortsExtracted =>
        /\ MapsHosts(extracted.value, parsed_data.hosts,
                     {i \in WithPortAndService(parsed_data.hosts) :
                         parsed_data.hosts[i][<<"Service">>] # <<>>})
        /\ Content = ExampleText => extracted.value = ExampleMap

\* the example text gave {80: ["http"], 22: ["ssh"]}
C14_Witness ==
    /\ PortsExtracted
    /\ Content = ExampleText
    /\ parsed_data.total = 2
    /\ extracted.value = ExampleMap

\* the findings came back
VulnerabilitiesExtracted == extracted.op = "extract_vulnerabilities"

\* the hosts with a CVE or a Vulnerability key, by their position
Vulnerable(hosts) ==
    {i \in 1..Len(hosts) :
        <<"CVE">> \in DOMAIN hosts[i] \/ <<"Vulnerability">> \in DOMAIN hosts[i]}

\* the value of a host under a key, null when the host has no such key
Carried(host, key) == IF key \in DOMAIN host THEN Str(host[key]) ELSE None

\* the four fields other than ip are carried through
CarriedThrough(finding, host) ==
    /\ finding.port = Carried(host, <<"Port">>)
    /\ finding.service = Carried(host, <<"Service">>)
    /\ finding.cve = Carried(host, <<"CVE">>)
    /\ finding.description = Carried(host, <<"Vulnerability">>)

\* C15 as stated: one finding per host with a CVE or a Vulnerability key, in
\* host order, every field carried through and null when the host lacks it.
C15_FindingsAsStated ==
    VulnerabilitiesExtracted =>
        /\ Len(extracted.value) = Cardinality(Vulnerable(parsed_data.hosts))
        /\ \A k \in 1..Len(extracted.value) :
              LET host == parsed_data.hosts[Kth(Vulnerable(parsed_data.hosts), k)]
              IN  /\ CarriedThrough(extracted.value[k], host)
                  /\ extracted.value[k].ip = Carried(host, <<"IP">>)

\* C15: the same, except that the ip of a host without an IP key is the
\* string "Unknown".
C15_Findings ==
    VulnerabilitiesExtracted =>
        /\ Len(extracted.value) = Cardinality(Vulnerable(parsed_data.hosts))
        /\ \A k \in 1..Len(extracted.value) :
              LET host == parsed_data.hosts[Kth(Vulnerable(parsed_data.hosts), k)]
              IN  /\ CarriedThrough(extracted.value[k], host)
                  /\ extracted.value[k].ip =
                         IF <<"IP">> \in DOMAIN host THEN Str(host[<<"IP">>])
                         ELSE Str(<<"Unknown">>)

\* two findings came back, the first of a host without an IP, the second of
\* a host without a CVE
C15_Witness ==
    /\ VulnerabilitiesExtracted
    /\ Len(extracted.value) = 2
    /\ extracted.value[1].ip = Str(<<"Unknown">>)
    /\ extracted.value[1].cve = Str(<<"CVE-2021-0001">>)
    /\ extracted.value[2].ip = Str(<<"5.6.7.8">>)
    /\ extracted.value[2].cve = None

\* C16: when the source file is absent, parse_text_file raises
\* FileNotFoundError with no file operation done and nothing changed, and the
\* command line tool returns a nonzero status with no file operation done:
\* neither the output file nor its directory is created.
C16_AbsentSource ==
    /\ (shodan.op = "parse_text_file" /\ ~exists(shodan.fs, shodan.filepath)) =>
          /\ shodan.outcome.raised
          /\ shodan.outcome.error = "FileNotFoundError"
          /\ io = <<>>
          /\ fs = shodan.fs
          /\ parsed_data = NoDoc
    /\ (shodan.op = "main" /\ ~exists(shodan.fs, shodan.input_file)) =>
          /\ shodan.status # 0
          /\ io = <<>>
          /\ fs = shodan.fs

\* the tool ran on an absent input with an output path in a directory that
\* does not exist, and the directory still does not exist
C16_Witness ==
    /\ shodan.op = "main"
    /\ ~exists(shodan.fs, shodan.input_file)
    /\ shodan.output_file # None
    /\ dirname(shodan.output_file) = "out"
    /\ ~isdir(fs, "out")
    /\ shodan.status = 1

\* parse_text_file ran on a file that exists and cannot be read or decoded
ReadFailed ==
    /\ shodan.op = "parse_text_file"
    /\ exists(shodan.fs, shodan.filepath)
    /\ shodan.fs.files[shodan.filepath].kind = "unreadable"

C18_SimulationNeverFails ==
    narrative.generator = "simulation" =>
        /\ ~narrative.outcome.raised
        /\ Len(narrative.outcome.value) = 1
        /\ narrative.devices = <<>> =>
              narrative.outcome.value = <<Text(NoDevicesText)>>
        /\ narrative.devices # <<>> =>
              LET part == narrative.outcome.value[1]
              IN  /\ part.kind = "simulation"
                  /\ part.entry_text.name \in {"Gate Camera", "Primary Target"}
                  /\ part.entry_text.cves \in {<<"CVE-2021-0001">>, <<"CVE-2023-XXXX">>}

\* a narrative came back for two devices of which the entry point has no
\* field at all
C18_Witness ==
    /\ narrative.generator = "simulation"
    /\ Len(narrative.devices) = 2
    /\ \A i \in 1..2 : DOMAIN narrative.devices[i] = {}
    /\ ~narrative.outcome.raised
    /\ narrative.outcome.value[1].entry_text.name = "Primary Target"
    /\ narrative.outcome.value[1].entry_text.targeted = "primary system"

\* the score a device states, 0 when it states none
ScoreOrZero(d) == IF "vuln_score" \in DOMAIN d THEN d["vuln_score"].num ELSE 0

RECURSIVE SumOrZero(_)
SumOrZero(devs) ==
    IF devs = <<>> THEN 0 ELSE ScoreOrZero(Head(devs)) + SumOrZero(Tail(devs))

\* C19: a device without a vuln_score key counts as score 0 in the
\* aggregation: analyze returns success true, the mean has every device in its
\* denominator and 0 for the device, the device is not among the high ones,
\* and it is ranked as 0 (entry point only when no device states more, never a
\* lateral target).
C19_AbsentScoreIsZero ==
    (pc = "done" /\ given # <<>> /\ WellFormed(given)) =>
        /\ result.success
        /\ result.avg_vuln_score = round1(Rat(SumOrZero(given), 10 * Len(given)))
        /\ result.high_vuln_count =
              Cardinality({i \in 1..Len(given) :
                  "vuln_score" \in DOMAIN given[i] /\ given[i]["vuln_score"].num >= 70})
        /\ \A part \in Rendered(result) :
              /\ \A i \in 1..Len(given) :
                    ScoreOrZero(given[i]) <= ScoreOrZero(part.entry_point)
              /\ \A j \in 1..Len(part.lateral_targets) :
                    "vuln_score" \in DOMAIN part.lateral_targets[j]

\* analyze returned for a list that holds a device without a score behind
\* one of score 9.0
C19_Witness ==
    /\ pc = "done"
    /\ Len(given) = 2
    /\ "vuln_score" \in DOMAIN given[1]
    /\ given[1]["vuln_score"] = Num(90)
    /\ "vuln_score" \notin DOMAIN given[2]
    /\ result.success
    /\ result.avg_vuln_score = 45
    /\ result.high_vuln_count = 1

\* C20 as stated: every analyze call that sends the remote request returns.
C20_AlwaysReturns == (pc = "awaiting") ~> (pc = "done")

\* C21: one analyze call calls the remote model at most once, a failed
\* request included, and not at all when the device list is empty, when the
\* rule-based generator is selected (use_ai off, no capability or no
\* credential) or when the credential is the simulation sentinel; it has
\* issued its one request exactly when it waits for the remote model or has
\* got its answer.
C21_AtMostOneRequest ==
    /\ requests <= 1
    /\ Started =>
          /\ (\/ given = <<>>
              \/ ~use_ai
              \/ ~OPENAI_AVAILABLE
              \/ OPENAI_API_KEY = <<>>
              \/ IsPlaceholder(OPENAI_API_KEY)) => requests = 0
          /\ requests = 1 <=> (pc = "awaiting" \/ response # NoResponse)

\* the one request of a call failed and the call returned without another
C21_Witness ==
    /\ pc = "done"
    /\ response # NoResponse
    /\ response.status = "error"
    /\ "simulation" \in {invoked[i] : i \in 1..Len(invoked)}
    /\ requests = 1

\* what analyze returns for the list devs and the flag u when no other call
\* runs beside it, resp being the end of its remote request if it makes one
RunAlone(devs, u, resp) ==
    IF devs = <<>> THEN analyze_no_devices
    ELSE LET g == IF u /\ OPENAI_AVAILABLE
                  THEN generate_attack_vector_with_ai(devs)
                  ELSE rule_based_attack_vector(devs) @@ [state |-> "returned"]
             h == IF g.state = "request"
                  THEN generate_attack_vector_with_ai_response(g.devices, resp)
                  ELSE g
             body == IF h.outcome.raised THEN h.outcome
                     ELSE analyze_statistics(h.outcome.value, h.devices)
         IN  analyze_except(body).result

\* C22: two analyze calls that run concurrently on analyzers with disjoint
\* device lists are independent: under every interleaving each call returns
\* the result it returns when it runs alone, nothing escapes, and the list
\* of neither analyzer is changed.
C22_ConcurrentIndependent ==
    threads # NoThreads =>
        \A a \in Analyzers :
            /\ threads[a].devices = threads[a].given
            /\ threads[a].pc = "done" =>
                  /\ threads[a].escaped = ""
                  /\ threads[a].result =
                         RunAlone(threads[a].given, threads[a].use_ai, threads[a].response)

\* both calls have returned after steps of one between steps of the other,
\* one after a failed remote request and one from the rule-based generator
C22_Witness ==
    /\ threads # NoThreads
    /\ \A a \in Analyzers :
           /\ threads[a].pc = "done"
           /\ threads[a].overlapped
           /\ threads[a].result.success
    /\ threads[1].response # NoResponse
    /\ threads[1].response.status = "error"
    /\ ~threads[2].use_ai
    /\ threads[1].result.risk_score # threads[2].result.risk_score

\* C23: over every sequence of set_devices and analyze calls on one analyzer,
\* a call leaves the configured list as it was handed over, the result of a
\* call that made no remote request is the result for the list configured
\* last and its use_ai flag, whatever was configured and returned before, and
\* a second such call with the same flag and no set_devices between returns
\* an equal result.
C23_NoCrossCallState ==
    [][/\ devices' = given'
       /\ (pc' = "done" /\ response' = NoResponse) =>
              result' = RunAlone(given', use_ai', NoResponse)
       /\ (pc = "done" /\ pc' = "done" /\ given' = given /\ use_ai' = use_ai
              /\ response = NoResponse /\ response' = NoResponse) =>
              result' = result]_vars

\* the second call in a row on a configured list has returned a narrative
\* and scores without a remote request
C23_Witness ==
    /\ calls = 2
    /\ pc = "done"
    /\ response = NoResponse
    /\ given # <<>>
    /\ result.success
    /\ use_ai

\* position i of devs comes before position j in the ranking: the higher
\* score first, the earlier position first among equal scores
RankedBefore(devs, i, j) ==
    \/ Scores(devs)[i] > Scores(devs)[j]
    \/ Scores(devs)[i] = Scores(devs)[j] /\ i < j

\* the positions of the devices other than the entry point with score >= 4
Candidates(devs) ==
    {i \in 1..Len(devs) : i # EarliestMax(devs) /\ Scores(devs)[i] >= 40}

\* the targets as the specification defines them: the candidates in ranking
\* order, cut to the first three
StatedTargets(devs) ==
    LET cand == Candidates(devs)
        place(i) == 1 + Cardinality({j \in cand : RankedBefore(devs, j, i)})
        n == IF Cardinality(cand) < 3 THEN Cardinality(cand) ELSE 3
    IN  [k \in 1..n |-> devs[CHOOSE i \in cand : place(i) = k]]

\* C24: for every list of devices with numeric or absent scores, the lateral
\* targets of both generators (the three ranked devices behind the entry
\* point, of which those with score >= 4 are kept) are the non-entry devices
\* with score >= 4 in ranking order, cut to the first three.
C24_TargetsAsDefined ==
    (pc = "done" /\ given # <<>> /\ WellFormed(given)) =>
        /\ Rendered(result) # {}
        /\ \A part \in Rendered(result) :
              part.lateral_targets = StatedTargets(given)

\* the rule-based generator ran on a full list with two candidates: a device
\* below the threshold stood in the window of three and was dropped
C24_Witness ==
    /\ pc = "done"
    /\ result.success
    /\ ~use_ai
    /\ Len(given) = MaxPathDevices
    /\ Cardinality(Candidates(given)) = 2
    /\ \E part \in Rendered(result) : Len(part.lateral_targets) = 2

\* the kinds of the parts of the narrative that analyze returned
Kinds(r) == {r.attack_vector[i].kind : i \in 1..Len(r.attack_vector)}

\* C25: whenever use_ai, the capability and a real credential selected the
\* remote model and the returned narrative is the simulated generator's,
\* after a failed request or without a client, the narrative carries a note
\* that explains the degradation.
C25_DegradationNoted ==
    (/\ pc = "done" /\ use_ai /\ OPENAI_AVAILABLE
     /\ OPENAI_API_KEY # <<>> /\ ~IsPlaceholder(OPENAI_API_KEY)
     /\ "attack_vector" \in DOMAIN result
     /\ "simulation" \in Kinds(result)) =>
        "note" \in Kinds(result)

\* the narrative parts a caller's generator call returned
CallRendered ==
    IF narrative = NoNarrative \/ narrative.outcome.raised THEN {}
    ELSE {narrative.outcome.value[i] :
             i \in {j \in 1..Len(narrative.outcome.value) :
                       narrative.outcome.value[j].kind \in {"rule_based", "simulation"}}}

\* C26: for every device list the rule-based and the simulated generator
\* select the same entry point and the same lateral targets in the same
\* order; their narratives differ in the rendered text only.
C26_SameSelection ==
    (pc = "done" /\ given # <<>> /\ narrative # NoNarrative) =>
        /\ narrative.devices = given
        /\ result.success
        /\ ~narrative.outcome.raised
        /\ \A p \in Rendered(result) : \A q \in CallRendered :
              /\ p.entry_point = q.entry_point
              /\ p.lateral_targets = q.lateral_targets
              /\ Len(p.target_texts) = Len(q.target_texts)

\* the simulated narrative of analyze and the rule-based narrative of a
\* caller for one full list with three targets each
C26_Witness ==
    /\ pc = "done"
    /\ Len(given) = MaxPathDevices
    /\ narrative # NoNarrative
    /\ narrative.generator = "rule_based"
    /\ \E p \in Rendered(result) : \E q \in CallRendered :
          /\ p.kind = "simulation"
          /\ q.kind = "rule_based"
          /\ Len(p.lateral_targets) = 3
          /\ p.lateral_targets = q.lateral_targets
          /\ p.entry_text # q.entry_text

\* C27: the risk_score, high_vuln_count and avg_vuln_score that analyze
\* returns for a non-empty list are those of the list, the same for use_ai
\* true and false, under every capability, credential and client, and
\* whether the remote request answered or failed and fell back; a list that
\* has a string score gets no statistics on any path.
C27_StatisticsPathIndependent ==
    (pc = "done" /\ given # <<>>) =>
        IF WellFormed(given)
        THEN /\ result.success
             /\ result.risk_score = StatedRisk(given)
             /\ result.high_vuln_count = HighCount(given)
             /\ result.avg_vuln_score = round1(Rat(SumOrZero(given), 10 * Len(given)))
        ELSE /\ ~result.success
             /\ DOMAIN result = {"success", "error", "attack_vector"}

\* the statistics of scores 9, 9 and 4 behind a failed remote request
C27_Witness ==
    /\ pc = "done"
    /\ use_ai
    /\ response # NoResponse
    /\ response.status = "error"
    /\ WellFormed(given)
    /\ Scores(given) = <<90, 90, 40>>
    /\ result.success
    /\ "note" \in Kinds(result)
    /\ result.risk_score = 63
    /\ result.high_vuln_count = 2
    /\ result.avg_vuln_score = 73

\* the lists hold the same devices but for one, whose score is higher in raised
RaisedOne(base, raised) ==
    /\ Len(base) = Len(raised)
    /\ \E i \in 1..Len(base) :
          /\ Scores(base)[i] < Scores(raised)[i]
          /\ \A j \in 1..Len(base) : j # i => base[j] = raised[j]

\* C28: for device lists with scores in [0, 10], raising the vuln_score of
\* one device and leaving the others as they are never lowers the risk_score
\* analyze returns.
C28_RiskScoreMonotone ==
    (/\ threads # NoThreads
     /\ \A a \in Analyzers : threads[a].pc = "done" /\ WellFormed(threads[a].given)
     /\ RaisedOne(threads[1].given, threads[2].given)) =>
        /\ threads[1].result.success
        /\ threads[2].result.success
        /\ threads[1].result.risk_score <= threads[2].result.risk_score

\* a score raised across the threshold of 7 beside five scores of 10: the
\* risk score goes from 9.6 to the cap of 10
C28_Witness ==
    /\ threads # NoThreads
    /\ \A a \in Analyzers : threads[a].pc = "done" /\ WellFormed(threads[a].given)
    /\ RaisedOne(threads[1].given, threads[2].given)
    /\ Len(threads[1].given) = 6
    /\ threads[1].result.risk_score = 96
    /\ threads[2].result.risk_score = 100
    /\ threads[2].result.high_vuln_count = 1 + threads[1].result.high_vuln_count

\* C29: after every sequence of searches and page switches in the integrated
\* dashboard the coords of the session are unset or a record with lat and
\* lon, a search for an unknown city has shown the not-found message, and no
\* page has ended in an exception instead of its map.
C29_CoordsUnsetOrRecord ==
    "none" \notin DOMAIN session =>
        /\ \/ session.coords = None
           \/ DOMAIN session.coords = {"lat", "lon"}
        /\ session.shown.kind # "exception"
        /\ (session.page = PortScanner /\ session.shown.kind # "form"
              /\ ~bool(city_to_coordinates(session.city_name))) =>
              session.shown = ShownError(NotFoundMessage(session.city_name))

\* the path the conversion tool writes to: the output argument, or the input
\* path with the extension replaced by .json
OutputTarget ==
    IF shodan.output_file = None
    THEN Path(shodan.input_file.dir, shodan.input_file.stem, ".json")
    ELSE shodan.output_file

\* C30: for an input file that exists and can be read the conversion tool
\* returns exit status 0 and leaves a JSON file with the parsed hosts, their
\* total, the parse timestamp and the processing time at the output path,
\* whichever it is, a path without a directory part included.
C30_ConvertedToEveryOutputPath ==
    (/\ shodan.op = "main"
     /\ exists(shodan.fs, shodan.input_file)
     /\ shodan.fs.files[shodan.input_file].kind = "text") =>
        /\ shodan.status = 0
        /\ exists(fs, OutputTarget)
        /\ fs.files[OutputTarget].kind = "json"
        /\ LET doc == fs.files[OutputTarget].document
           IN  /\ doc.hosts =
                     hosts_of(re_split(shodan.fs.files[shodan.input_file].content))
               /\ doc.total = Len(doc.hosts)
               /\ doc.metadata.parsed_timestamp = Timestamp
               /\ doc.metadata.processing_time_seconds = Duration

====
